---- MODULE Spec2Model ----
(***************************************************************************)
(* Model of dembrandt's colour engine: colors.js (parser, formatter,       *)
(* convertColor) and the colour consolidation of display.js                *)
(* (normalizeColorFormat, displayColors).                                  *)
(*                                                                         *)
(* A JavaScript string is a sequence of one-character strings.  A number   *)
(* that may be NaN is a record [nan, v].  An optional alpha is a record    *)
(* [def, nan, num, den]: the rational num/den in lowest terms.             *)
(***************************************************************************)
EXTENDS Integers, Sequences, FiniteSets, TLC

\* ------------------------------------------------------------------ bounds
\* Longest body (the part after '#') of a generated hex input; the longest
\* form hexToRgb reads has 8 characters.
MaxHexLen == 8
\* Largest number of observations (semantic + custom property + palette)
\* in one extraction handed to displayColors.
MaxObs == 3
\* Longest list of custom properties and longest palette of an extraction
\* that is long enough to meet the limits of 15 and 20.
MaxVars == 17
MaxPalette == 24
\* Largest number of completed calls of displayColors before the one running.
MaxCalls == 2
\* Largest number of custom properties of an extraction that is exported.
MaxFigmaVars == 3
\* Largest numbers of colours and of typography entries in the data of an import.
MaxPluginColors == 2
MaxTypography == 2

\* ------------------------------------------------------------ characters
DecDigits == <<"0", "1", "2", "3", "4", "5", "6", "7", "8", "9">>
LowerHex == <<"0", "1", "2", "3", "4", "5", "6", "7", "8", "9", "a", "b", "c", "d", "e", "f">>
UpperHex == <<"0", "1", "2", "3", "4", "5", "6", "7", "8", "9", "A", "B", "C", "D", "E", "F">>
UpperLetters == <<"A", "B", "C", "D", "E", "F", "G", "H", "I", "J", "K", "L", "M", "N", "O", "P", "Q", "R", "S", "T", "U", "V", "W", "X", "Y", "Z">>
LowerLetters == <<"a", "b", "c", "d", "e", "f", "g", "h", "i", "j", "k", "l", "m", "n", "o", "p", "q", "r", "s", "t", "u", "v", "w", "x", "y", "z">>

Range(f) == {f[i] : i \in DOMAIN f}
IsDigit(c) == c \in Range(DecDigits)
IsHexDigit(c) == c \in Range(LowerHex) \cup Range(UpperHex)
\* \s of a JavaScript regular expression and the white space parseInt skips
\* (the characters of it that the inputs use).
IsSpace(c) == c \in {" ", "\t", "\n"}
DigitVal(c) == (CHOOSE i \in 1..10 : DecDigits[i] = c) - 1
HexDigitVal(c) == (CHOOSE i \in 1..16 : LowerHex[i] = c \/ UpperHex[i] = c) - 1

\* s[i], or "" past either end (a JavaScript index out of range is undefined).
At(s, i) == IF i \in 1..Len(s) THEN s[i] ELSE ""
\* s.slice(a, b) with 0-based a (inclusive) and b (exclusive), both >= 0.
Slice(s, a, b) == SubSeq(s, a + 1, IF b > Len(s) THEN Len(s) ELSE b)
\* s.slice(a)
SliceFrom(s, a) == SubSeq(s, a + 1, Len(s))
StartsWith(s, p) == Len(s) >= Len(p) /\ SubSeq(s, 1, Len(p)) = p
EndsWith(s, p) == Len(s) >= Len(p) /\ SubSeq(s, Len(s) - Len(p) + 1, Len(s)) = p

\* s.includes(t)
Contains(s, t) == \E i \in 1..(Len(s) - Len(t) + 1) : SubSeq(s, i, i + Len(t) - 1) = t
LowerChar(c) == IF c \in Range(UpperLetters) THEN LowerLetters[CHOOSE i \in 1..26 : UpperLetters[i] = c] ELSE c
\* String.prototype.toLowerCase
ToLowerCase(s) == [i \in 1..Len(s) |-> LowerChar(s[i])]

\* ------------------------------------------------------------------ numbers
NaN == [nan |-> TRUE, v |-> 0]
Num(n) == [nan |-> FALSE, v |-> n]
Undefined == [def |-> FALSE, nan |-> FALSE, num |-> 0, den |-> 1]

RECURSIVE Gcd(_, _)
Gcd(a, b) == IF b = 0 THEN a ELSE Gcd(b, a % b)
Abs(n) == IF n < 0 THEN -n ELSE n
\* the number num/den (den > 0), as an alpha value
Ratio(num, den) == LET g == Gcd(Abs(num), den) IN [def |-> TRUE, nan |-> FALSE, num |-> num \div g, den |-> den \div g]
AlphaNaN == [def |-> TRUE, nan |-> TRUE, num |-> 0, den |-> 1]
\* a < 1 on numbers: false for NaN
LessThanOne(a) == ~a.nan /\ a.num < a.den

RECURSIVE Pow10(_)
Pow10(k) == IF k = 0 THEN 1 ELSE 10 * Pow10(k - 1)

\* value of a sequence of decimal digits (0 for the empty sequence)
RECURSIVE DecValue(_)
DecValue(s) == IF s = <<>> THEN 0 ELSE 10 * DecValue(SubSeq(s, 1, Len(s) - 1)) + DigitVal(s[Len(s)])
\* value of a sequence of hexadecimal digits
RECURSIVE HexValue(_)
HexValue(s) == IF s = <<>> THEN 0 ELSE 16 * HexValue(SubSeq(s, 1, Len(s) - 1)) + HexDigitVal(s[Len(s)])

\* first index >= i of s that holds no decimal digit
RECURSIVE SkipDigits(_, _)
SkipDigits(s, i) == IF IsDigit(At(s, i)) THEN SkipDigits(s, i + 1) ELSE i
RECURSIVE SkipSpaces(_, _)
SkipSpaces(s, i) == IF IsSpace(At(s, i)) THEN SkipSpaces(s, i + 1) ELSE i
\* first index >= i of s that holds neither a digit nor '.': the class [\d.]
RECURSIVE SkipDigitsDots(_, _)
SkipDigitsDots(s, i) == IF IsDigit(At(s, i)) \/ At(s, i) = "." THEN SkipDigitsDots(s, i + 1) ELSE i
RECURSIVE SkipHexDigits(_, _)
SkipHexDigits(s, i) == IF IsHexDigit(At(s, i)) THEN SkipHexDigits(s, i + 1) ELSE i

\* parseInt(s) of a string of decimal digits (a \d+ capture)
ParseIntDec(s) == Num(DecValue(s))

\* parseInt(s, 16): skips leading white space, takes a sign, takes a 0x/0X
\* prefix, then reads the longest run of hex digits; NaN when that run is empty.
\* i2..i3-1 is the run of digits
ParseInt16Run(s, neg, i2, i3) == IF i3 = i2 THEN NaN ELSE Num(IF neg THEN -HexValue(SubSeq(s, i2, i3 - 1)) ELSE HexValue(SubSeq(s, i2, i3 - 1)))
ParseInt16Digits(s, neg, i2) == ParseInt16Run(s, neg, i2, SkipHexDigits(s, i2))
ParseInt16Prefix(s, neg, i1) == ParseInt16Digits(s, neg, IF At(s, i1) = "0" /\ At(s, i1 + 1) \in {"x", "X"} THEN i1 + 2 ELSE i1)
ParseInt16Sign(s, i0) == ParseInt16Prefix(s, At(s, i0) = "-", IF At(s, i0) \in {"+", "-"} THEN i0 + 1 ELSE i0)
ParseInt16(s) == ParseInt16Sign(s, SkipSpaces(s, 1))

\* parseFloat(s) of a [\d.]+ capture: digits, then '.' and digits; NaN when
\* there is no digit at all before the text stops being a number.
\* ip, fp: the digits before and after the point
ParseFloatParts(ip, fp) == IF ip = <<>> /\ fp = <<>> THEN AlphaNaN ELSE Ratio(DecValue(ip \o fp), Pow10(Len(fp)))
ParseFloatFrac(s, i1, i2) == ParseFloatParts(SubSeq(s, 1, i1 - 1), SubSeq(s, i1 + 1, i2 - 1))
ParseFloatInt(s, i1) == IF At(s, i1) = "." THEN ParseFloatFrac(s, i1, SkipDigits(s, i1 + 1)) ELSE ParseFloatParts(SubSeq(s, 1, i1 - 1), <<>>)
ParseFloat(s) == ParseFloatInt(s, SkipDigits(s, 1))

\* decimal digits of n >= 0
RECURSIVE NatToDec(_)
NatToDec(n) == IF n < 10 THEN <<DecDigits[n + 1]>> ELSE NatToDec(n \div 10) \o <<DecDigits[(n % 10) + 1]>>
\* lowercase hexadecimal digits of n >= 0
RECURSIVE NatToHex(_)
NatToHex(n) == IF n < 16 THEN <<LowerHex[n + 1]>> ELSE NatToHex(n \div 16) \o <<LowerHex[(n % 16) + 1]>>

\* String(n) of an integer-valued number, as a template literal renders it
NumToString(n) == IF n.nan THEN <<"N", "a", "N">> ELSE IF n.v < 0 THEN <<"-">> \o NatToDec(-n.v) ELSE NatToDec(n.v)
\* n.toString(16)
ToString16(n) == IF n.nan THEN <<"N", "a", "N">> ELSE IF n.v < 0 THEN <<"-">> \o NatToHex(-n.v) ELSE NatToHex(n.v)
\* no padding
PadStartNone(s) == s
\* s.padStart(2, '0')
PadStart2(s) == IF Len(s) = 0 THEN <<"0", "0">> ELSE IF Len(s) = 1 THEN <<"0">> \o s ELSE s

\* den has no prime factor other than 2 and 5: num/den is a finite decimal
RECURSIVE IsDecimalDen(_)
IsDecimalDen(d) == IF d = 1 THEN TRUE ELSE IF d % 2 = 0 THEN IsDecimalDen(d \div 2) ELSE IF d % 5 = 0 THEN IsDecimalDen(d \div 5) ELSE FALSE
\* the fraction digits of rem/den by long division (rem < den, finite)
RECURSIVE FracDigits(_, _)
FracDigits(rem, den) == IF rem = 0 THEN <<>> ELSE <<DecDigits[((10 * rem) \div den) + 1]>> \o FracDigits((10 * rem) % den, den)
\* String(a) of an alpha value.  A finite decimal prints as its digits (the
\* shortest text that reads back as the same number).  Another fraction k/255
\* prints as the digits of a double; that digit string is written here as the
\* one-element text <"~k/255">, distinct for distinct values.
AlphaToString(a) ==
  IF a.nan THEN <<"N", "a", "N">>
  ELSE LET m == Abs(a.num)
           sign == IF a.num < 0 THEN <<"-">> ELSE <<>>
       IN IF IsDecimalDen(a.den)
          THEN sign \o NatToDec(m \div a.den) \o (IF m % a.den = 0 THEN <<>> ELSE <<".">> \o FracDigits(m % a.den, a.den))
          ELSE <<"~">> \o sign \o NatToDec(m) \o <<"/">> \o NatToDec(a.den)

\* -------------------------------------------------------------- colors.js
Null == [null |-> TRUE]
NoMatch == [matched |-> FALSE, g1 |-> <<>>, g2 |-> <<>>, g3 |-> <<>>, has4 |-> FALSE, g4 |-> <<>>, last |-> 0]

\* /rgba?\((\d+),\s*(\d+),\s*(\d+)(?:,\s*([\d.]+))?\)/ tried at index i of s.
\* Each greedy class is followed by a character outside it, so the greedy
\* choice is the only one that can match and no backtracking is lost.
\* The operators below match the expression piece by piece, left to right.
Matched(g1, g2, g3, has4, g4, last) == [matched |-> TRUE, g1 |-> g1, g2 |-> g2, g3 |-> g3, has4 |-> has4, g4 |-> g4, last |-> last]
\* ([\d.]+)\) with the class run k4..d4-1
MatchAlphaRun(s, g1, g2, g3, k4, d4) == IF d4 > k4 /\ At(s, d4) = ")" THEN Matched(g1, g2, g3, TRUE, SubSeq(s, k4, d4 - 1), d4) ELSE NoMatch
MatchAlpha(s, g1, g2, g3, k4) == MatchAlphaRun(s, g1, g2, g3, k4, SkipDigitsDots(s, k4))
\* (?:,\s*([\d.]+))?\) at d3
MatchTail(s, g1, g2, g3, d3) ==
  IF At(s, d3) = "," THEN MatchAlpha(s, g1, g2, g3, SkipSpaces(s, d3 + 1))
  ELSE IF At(s, d3) = ")" THEN Matched(g1, g2, g3, FALSE, <<>>, d3) ELSE NoMatch
\* (\d+) with the digit run k3..d3-1
MatchBlueRun(s, g1, g2, k3, d3) == IF d3 > k3 THEN MatchTail(s, g1, g2, SubSeq(s, k3, d3 - 1), d3) ELSE NoMatch
MatchBlue(s, g1, g2, k3) == MatchBlueRun(s, g1, g2, k3, SkipDigits(s, k3))
\* (\d+),\s* with the digit run k2..d2-1
MatchGreenRun(s, g1, k2, d2) == IF d2 > k2 /\ At(s, d2) = "," THEN MatchBlue(s, g1, SubSeq(s, k2, d2 - 1), SkipSpaces(s, d2 + 1)) ELSE NoMatch
MatchGreen(s, g1, k2) == MatchGreenRun(s, g1, k2, SkipDigits(s, k2))
\* (\d+),\s* with the digit run k1..d1-1
MatchRedRun(s, k1, d1) == IF d1 > k1 /\ At(s, d1) = "," THEN MatchGreen(s, SubSeq(s, k1, d1 - 1), SkipSpaces(s, d1 + 1)) ELSE NoMatch
\* \( at j0
MatchOpen(s, j0) == IF At(s, j0) = "(" THEN MatchRedRun(s, j0 + 1, SkipDigits(s, j0 + 1)) ELSE NoMatch
MatchRgbaAt(s, i) ==
  IF At(s, i) = "r" /\ At(s, i + 1) = "g" /\ At(s, i + 2) = "b"
  THEN MatchOpen(s, IF At(s, i + 3) = "a" THEN i + 4 ELSE i + 3)
  ELSE NoMatch

\* colorString.match(re): the regular expression is not anchored, so the
\* leftmost index at which it matches decides.
MatchFirst(s, hits) == IF hits = {} THEN NoMatch ELSE MatchRgbaAt(s, CHOOSE i \in hits : \A j \in hits : i <= j)
MatchRgba(s) == MatchFirst(s, {i \in 1..Len(s) : MatchRgbaAt(s, i).matched})

\* a: parseInt(hex.slice(6, 8), 16) / 255
AlphaOfByte(n) == IF n.nan THEN AlphaNaN ELSE Ratio(n.v, 255)
\* the 3-character form read one digit per channel, without the duplication
HexBodyNoDup(h) ==
  IF Len(h) = 3 THEN [r |-> ParseInt16(<<h[1]>>), g |-> ParseInt16(<<h[2]>>), b |-> ParseInt16(<<h[3]>>), a |-> Undefined]
  ELSE IF Len(h) = 6 THEN [r |-> ParseInt16(Slice(h, 0, 2)), g |-> ParseInt16(Slice(h, 2, 4)), b |-> ParseInt16(Slice(h, 4, 6)), a |-> Undefined]
  ELSE IF Len(h) = 8 THEN [r |-> ParseInt16(Slice(h, 0, 2)), g |-> ParseInt16(Slice(h, 2, 4)), b |-> ParseInt16(Slice(h, 4, 6)), a |-> AlphaOfByte(ParseInt16(Slice(h, 6, 8)))]
  ELSE Null
\* hexToRgb after the '#' has been removed: h is hex.slice(1)
HexBodyToRgb(h) ==
  IF Len(h) = 3 THEN [r |-> ParseInt16(<<h[1], h[1]>>), g |-> ParseInt16(<<h[2], h[2]>>), b |-> ParseInt16(<<h[3], h[3]>>), a |-> Undefined]
  ELSE IF Len(h) = 6 THEN [r |-> ParseInt16(Slice(h, 0, 2)), g |-> ParseInt16(Slice(h, 2, 4)), b |-> ParseInt16(Slice(h, 4, 6)), a |-> Undefined]
  ELSE IF Len(h) = 8 THEN [r |-> ParseInt16(Slice(h, 0, 2)), g |-> ParseInt16(Slice(h, 2, 4)), b |-> ParseInt16(Slice(h, 4, 6)), a |-> AlphaOfByte(ParseInt16(Slice(h, 6, 8)))]
  ELSE Null

\* hexToRgb(hex)
hexToRgb(hex) == IF hex = <<>> \/ ~StartsWith(hex, <<"#">>) THEN Null ELSE HexBodyToRgb(SliceFrom(hex, 1))

\* The three numbers formatLch prints, Math.round(x * 100) / 100 of each of
\* rgbToLch(r, g, b).l, .c, .h.  A NaN channel makes every intermediate value
\* NaN, so each prints as NaN.  For numeric channels the printed digits are
\* not computed here: component k of the colour prints as the one text
\* <k r,g,b>, the same for the same channels.
LchNumber(k, r, g, b) ==
  IF r.nan \/ g.nan \/ b.nan THEN <<"N", "a", "N">>
  ELSE <<k>> \o NumToString(r) \o <<",">> \o NumToString(g) \o <<",">> \o NumToString(b) \o <<";">>

\* the closing with ' / alpha' whenever there is an alpha
WithAlphaDefined(body, alpha) == IF alpha.def THEN body \o <<" ", "/", " ">> \o AlphaToString(alpha) \o <<")">> ELSE body \o <<")">>
\* the closing of lch(...) and oklch(...): ' / alpha' when alpha is defined and
\* below 1
WithAlpha(body, alpha) == IF alpha.def /\ LessThanOne(alpha) THEN body \o <<" ", "/", " ">> \o AlphaToString(alpha) \o <<")">> ELSE body \o <<")">>

\* formatLch(rgbToLch(r, g, b), alpha)
formatLch(r, g, b, alpha) ==
  WithAlpha(<<"l", "c", "h", "(">> \o LchNumber("L", r, g, b) \o <<"%", " ">> \o LchNumber("C", r, g, b) \o <<" ">> \o LchNumber("H", r, g, b), alpha)

\* formatOklch(rgbToOklch(r, g, b), alpha)
formatOklch(r, g, b, alpha) ==
  WithAlpha(<<"o", "k", "l", "c", "h", "(">> \o LchNumber("okL", r, g, b) \o <<"%", " ">> \o LchNumber("okC", r, g, b) \o <<" ">> \o LchNumber("okH", r, g, b), alpha)

\* the channels convertColor takes from the match m, else from hexToRgb
ChannelsOf(m, colorString) ==
  IF m.matched
  THEN [r |-> ParseIntDec(m.g1), g |-> ParseIntDec(m.g2), b |-> ParseIntDec(m.g3),
        a |-> IF m.has4 THEN ParseFloat(m.g4) ELSE Undefined]
  ELSE hexToRgb(colorString)
\* the parsed channels of convertColor: the rgb()/rgba() match, else hexToRgb
ParseColor(colorString) == ChannelsOf(MatchRgba(colorString), colorString)

\* `#${r.toString(16).padStart(2, '0')}...`
HexOf(r, g, b) == <<"#">> \o PadStart2(ToString16(r)) \o PadStart2(ToString16(g)) \o PadStart2(ToString16(b))

\* the form chosen by the truthiness of a (`a ? ... : ...`): 0 and NaN count
\* as no alpha
RgbStringTruthy(r, g, b, a) ==
  IF a.def /\ ~a.nan /\ a.num # 0
  THEN <<"r", "g", "b", "a", "(">> \o NumToString(r) \o <<",", " ">> \o NumToString(g) \o <<",", " ">> \o NumToString(b) \o <<",", " ">> \o AlphaToString(a) \o <<")">>
  ELSE <<"r", "g", "b", "(">> \o NumToString(r) \o <<",", " ">> \o NumToString(g) \o <<",", " ">> \o NumToString(b) \o <<")">>
\* rgbStr: a !== undefined ? `rgba(r, g, b, a)` : `rgb(r, g, b)`
RgbStringOf(r, g, b, a) ==
  IF a.def
  THEN <<"r", "g", "b", "a", "(">> \o NumToString(r) \o <<",", " ">> \o NumToString(g) \o <<",", " ">> \o NumToString(b) \o <<",", " ">> \o AlphaToString(a) \o <<")">>
  ELSE <<"r", "g", "b", "(">> \o NumToString(r) \o <<",", " ">> \o NumToString(g) \o <<",", " ">> \o NumToString(b) \o <<")">>

\* an alpha counts whenever it is there
HasAlphaDefined(a) == a.def
HasAlphaOf(a) == a.def /\ LessThanOne(a)

\* the record with the alpha in its hex: eight digits for a translucent colour
RecordOfAlphaHex(p) ==
  IF p = Null THEN Null
  ELSE [hex |-> ToLowerCase(HexOf(p.r, p.g, p.b)) \o (IF HasAlphaOf(p.a) THEN <<"8", "0">> ELSE <<>>),
        rgb |-> RgbStringOf(p.r, p.g, p.b, p.a),
        lch |-> formatLch(p.r, p.g, p.b, p.a),
        oklch |-> formatOklch(p.r, p.g, p.b, p.a),
        hasAlpha |-> HasAlphaOf(p.a)]
\* the record convertColor returns for the parsed channels p (null for null)
RecordOf(p) ==
  IF p = Null THEN Null
  ELSE [hex |-> ToLowerCase(HexOf(p.r, p.g, p.b)),
        rgb |-> RgbStringOf(p.r, p.g, p.b, p.a),
        lch |-> formatLch(p.r, p.g, p.b, p.a),
        oklch |-> formatOklch(p.r, p.g, p.b, p.a),
        hasAlpha |-> HasAlphaOf(p.a)]

\* convertColor(colorString)
convertColor(colorString) == RecordOf(ParseColor(colorString))

\* ------------------------------------------- colors.js: the number pipeline
\* The numbers of rgbToLch and rgbToOklch are IEEE doubles.  Here a number is
\* a fixed-point value with 12 decimals, held as a natural number of any size
\* (its limbs in base 10000, least significant first, no leading zero limb)
\* and, where it can be negative, as [neg, mag].  Every operation truncates
\* its result to the 12 decimals, so a value stands for the double within a
\* few units of 1e-9 (the doubles carry 1e-16).
Big2(a, b) == <<b, a>>
Big3(a, b, c) == <<c, b, a>>
Zero == <<>>
One == <<1>>
\* 1.0
Scale == <<0, 0, 0, 1>>
Limb(a, i) == IF i <= Len(a) THEN a[i] ELSE 0
LargerOf(m, n) == IF m < n THEN n ELSE m
RECURSIVE Trim(_)
Trim(a) == IF a # <<>> /\ a[Len(a)] = 0 THEN Trim(SubSeq(a, 1, Len(a) - 1)) ELSE a
\* the limbs of the number whose i-th limb is raw[i] (any natural), plus c
RECURSIVE Carry(_, _, _)
Carry(raw, i, c) ==
  IF i > Len(raw) THEN (IF c = 0 THEN <<>> ELSE <<c % 10000>> \o Carry(raw, i, c \div 10000))
  ELSE <<(raw[i] + c) % 10000>> \o Carry(raw, i + 1, (raw[i] + c) \div 10000)
BigAdd(a, b) == Trim(Carry([i \in 1..LargerOf(Len(a), Len(b)) |-> Limb(a, i) + Limb(b, i)], 1, 0))
RECURSIVE LeqFrom(_, _, _)
LeqFrom(a, b, i) == IF i = 0 THEN TRUE ELSE IF a[i] # b[i] THEN a[i] < b[i] ELSE LeqFrom(a, b, i - 1)
\* a <= b
BigLeq(a, b) == IF Len(a) # Len(b) THEN Len(a) < Len(b) ELSE LeqFrom(a, b, Len(a))
BigMax(a, b) == IF BigLeq(a, b) THEN b ELSE a
DigitDiff(a, b, i, br) == a[i] - Limb(b, i) - br
RECURSIVE Borrow(_, _, _, _)
Borrow(a, b, i, br) ==
  IF i > Len(a) THEN <<>>
  ELSE <<IF DigitDiff(a, b, i, br) < 0 THEN DigitDiff(a, b, i, br) + 10000 ELSE DigitDiff(a, b, i, br)>> \o Borrow(a, b, i + 1, IF DigitDiff(a, b, i, br) < 0 THEN 1 ELSE 0)
\* a - b, for a >= b
BigSub(a, b) == Trim(Borrow(a, b, 1, 0))
\* a * k for a small k
BigMulSmall(a, k) == Trim(Carry([i \in 1..Len(a) |-> a[i] * k], 1, 0))
RECURSIVE SumProd(_, _, _, _, _)
SumProd(a, b, k, i, hi) == IF i > hi THEN 0 ELSE a[i] * b[k + 1 - i] + SumProd(a, b, k, i + 1, hi)
BigMul(a, b) ==
  IF a = <<>> \/ b = <<>> THEN <<>>
  ELSE Trim(Carry([k \in 1..(Len(a) + Len(b)) |-> SumProd(a, b, k, LargerOf(1, k + 1 - Len(b)), IF Len(a) < k THEN Len(a) ELSE k)], 1, 0))
RECURSIVE Quot(_, _, _, _)
Quot(a, k, i, rem) == IF i = 0 THEN <<>> ELSE Quot(a, k, i - 1, (rem * 10000 + a[i]) % k) \o <<(rem * 10000 + a[i]) \div k>>
\* a / k, truncated, for a small k
BigDivSmall(a, k) == Trim(Quot(a, k, Len(a), 0))
\* a / 10000^n, truncated, and a * 10000^n
ShiftDown(a, n) == SubSeq(a, n + 1, Len(a))
ShiftUp(a, n) == IF a = <<>> THEN <<>> ELSE [i \in 1..n |-> 0] \o a
\* the value of a that fits a machine integer
BigToInt(a) == Limb(a, 1) + 10000 * Limb(a, 2) + 100000000 * Limb(a, 3)
\* m^k for k = 2, 3, 5
BigPow(m, k) == IF k = 2 THEN BigMul(m, m) ELSE IF k = 3 THEN BigMul(BigMul(m, m), m) ELSE BigMul(BigMul(BigMul(m, m), BigMul(m, m)), m)
\* the largest y with y^k <= target, found between lo and hi by bisection
RECURSIVE RootBisect(_, _, _, _)
RECURSIVE RootStep(_, _, _, _, _)
RootStep(k, target, lo, hi, mid) == IF BigLeq(BigPow(mid, k), target) THEN RootBisect(k, target, mid, hi) ELSE RootBisect(k, target, lo, mid)
RootBisect(k, target, lo, hi) == IF BigLeq(hi, BigAdd(lo, One)) THEN lo ELSE RootStep(k, target, lo, hi, BigDivSmall(BigAdd(lo, hi), 2))

\* signed values
Signed(neg, mag) == [neg |-> neg /\ mag # <<>>, mag |-> mag]
\* a - b of two naturals
SignedDiff(a, b) == IF BigLeq(b, a) THEN Signed(FALSE, BigSub(a, b)) ELSE Signed(TRUE, BigSub(b, a))

\* Math.cbrt(t) and Math.sqrt(t) of a value t >= 0; sqrt for t given with 24
\* decimals (a product of two values), below bound
Cbrt(t) == RootBisect(3, ShiftUp(t, 6), Zero, BigAdd(BigMax(t, Scale), One))
SqrtOfProduct(t, bound) == RootBisect(2, t, Zero, BigAdd(bound, One))

\* Math.pow(u, 2.4) as u^2 * u^(2/5), for u >= 0
PowOf(u, u2) == ShiftDown(BigMul(u2, RootBisect(5, ShiftUp(u2, 9), Zero, BigAdd(BigMax(u, Scale), One))), 6)
Pow24(u) == PowOf(u, BigMul(u, u))

\* the largest value of a colour channel
MaxChannel == 255
\* srgbToLinear(c), from c = c / 255 on
LinearOf(c) ==
  IF BigLeq(c, Big3(404, 5000, 0)) THEN BigDivSmall(BigMulSmall(c, 100), 1292)
  ELSE Pow24(BigDivSmall(BigMulSmall(BigAdd(c, Big3(550, 0, 0)), 1000), 1055))
srgbToLinear(c) == LinearOf(BigDivSmall(BigMulSmall(Scale, c), MaxChannel))

\* a sum of three products with coefficients of 7 decimals
Mix7(k1, v1, k2, v2, k3, v3) == BigDivSmall(ShiftDown(BigAdd(BigAdd(BigMul(k1, v1), BigMul(k2, v2)), BigMul(k3, v3)), 1), 1000)
\* linearRgbToXyz(r, g, b)
linearRgbToXyz(r, g, b) ==
  [x |-> Mix7(Big2(412, 4564), r, Big2(357, 5761), g, Big2(180, 4375), b),
   y |-> Mix7(Big2(212, 6729), r, Big2(715, 1522), g, Big2(72, 1750), b),
   z |-> Mix7(Big2(19, 3339), r, Big2(119, 1920), g, Big2(950, 3041), b)]

\* f without the offset of the linear branch
LabFNoOffset(t) ==
  IF ~BigLeq(t, Big3(88, 5600, 0)) THEN Cbrt(t)
  ELSE BigDivSmall(BigMulSmall(t, 9033), 1160)
\* f = (t) => t > 0.008856 ? Math.cbrt(t) : (903.3 * t + 16) / 116
LabF(t) ==
  IF ~BigLeq(t, Big3(88, 5600, 0)) THEN Cbrt(t)
  ELSE BigDivSmall(BigAdd(BigMulSmall(t, 9033), BigMulSmall(Scale, 160)), 1160)
\* l, a, b from fx, fy, fz
LabOf(fx, fy, fz) ==
  [l |-> SignedDiff(BigMulSmall(fy, 116), BigMulSmall(Scale, 16)),
   a |-> Signed(SignedDiff(fx, fy).neg, BigMulSmall(SignedDiff(fx, fy).mag, 500)),
   b |-> Signed(SignedDiff(fy, fz).neg, BigMulSmall(SignedDiff(fy, fz).mag, 200))]
\* the reference white of D50 in place of D65
xyzToLabD50(x, y, z) == LabOf(LabF(BigDivSmall(BigMulSmall(x, 100000), 96422)), LabF(y), LabF(BigDivSmall(BigMulSmall(z, 100000), 82521)))
\* xyzToLab(x, y, z): xn = 0.95047, yn = 1.00000, zn = 1.08883
xyzToLab(x, y, z) == LabOf(LabF(BigDivSmall(BigMulSmall(x, 100000), 95047)), LabF(y), LabF(BigDivSmall(BigMulSmall(z, 100000), 108883)))
\* labToLch(l, a, b) and oklabToOklch(L, a, b): l and c.  The hue,
\* Math.atan2(b, a) in degrees, is not computed.
PolarOf(l, a, b) == [l |-> l, c |-> SqrtOfProduct(BigAdd(BigMul(a.mag, a.mag), BigMul(b.mag, b.mag)), BigAdd(a.mag, b.mag))]
labToLch(lab) == PolarOf(lab.l, lab.a, lab.b)
XyzToLch(xyz) == labToLch(xyzToLab(xyz.x, xyz.y, xyz.z))
\* rgbToLch(r, g, b)
rgbToLch(r, g, b) == XyzToLch(linearRgbToXyz(srgbToLinear(r), srgbToLinear(g), srgbToLinear(b)))

\* a sum of products with coefficients of 10 decimals, less such a sum
Mix10(plus, minus) == Signed(SignedDiff(plus, minus).neg, BigDivSmall(ShiftDown(SignedDiff(plus, minus).mag, 2), 100))
\* the cube roots l, m, s of linearRgbToOklab
OklabLms(r, g, b) ==
  [l |-> Cbrt(Mix10(BigAdd(BigAdd(BigMul(Big3(41, 2221, 4708), r), BigMul(Big3(53, 6332, 5363), g)), BigMul(Big3(5, 1445, 9929), b)), Zero).mag),
   m |-> Cbrt(Mix10(BigAdd(BigAdd(BigMul(Big3(21, 1903, 4982), r), BigMul(Big3(68, 699, 5451), g)), BigMul(Big3(10, 7396, 9566), b)), Zero).mag),
   s |-> Cbrt(Mix10(BigAdd(BigAdd(BigMul(Big3(8, 8302, 4619), r), BigMul(Big3(28, 1718, 8376), g)), BigMul(Big3(62, 9978, 7005), b)), Zero).mag)]
\* L, a, b of linearRgbToOklab from l, m, s
OklabOf(q) ==
  [l |-> Mix10(BigAdd(BigMul(Big3(21, 454, 2553), q.l), BigMul(Big3(79, 3617, 7850), q.m)), BigMul(Big2(4072, 468), q.s)),
   a |-> Mix10(BigAdd(BigMul(Big3(197, 7998, 4951), q.l), BigMul(Big3(45, 593, 7099), q.s)), BigMul(Big3(242, 8592, 2050), q.m)),
   b |-> Mix10(BigAdd(BigMul(Big3(2, 5904, 371), q.l), BigMul(Big3(78, 2771, 7662), q.m)), BigMul(Big3(80, 8675, 7660), q.s))]
linearRgbToOklab(r, g, b) == OklabOf(OklabLms(r, g, b))
oklabToOklch(oklab) == PolarOf(oklab.l, oklab.a, oklab.b)
\* rgbToOklch(r, g, b)
rgbToOklch(r, g, b) == oklabToOklch(linearRgbToOklab(srgbToLinear(r), srgbToLinear(g), srgbToLinear(b)))

\* Math.round(v * k): the integer nearest to v * k, halves upwards (k small)
RoundPos(m) == BigToInt(ShiftDown(BigAdd(m, Big3(5000, 0, 0)), 3))
RoundNeg(m) == IF BigLeq(m, Big3(5000, 0, 0)) THEN 0 ELSE -(BigToInt(ShiftDown(BigSub(BigSub(m, Big3(5000, 0, 0)), One), 3)) + 1)
RoundTimes(v, k) == IF v.neg THEN RoundNeg(BigMulSmall(v.mag, k)) ELSE RoundPos(BigMulSmall(v.mag, k))
\* the digits after the point of f / 10^d, without the zeros at the end
RECURSIVE FractionText(_, _)
FractionText(f, d) == IF f = 0 THEN <<>> ELSE <<DecDigits[(f \div Pow10(d - 1)) + 1]>> \o FractionText(f % Pow10(d - 1), d - 1)
\* String(q / 10^d) for an integer q: what a template literal prints for
\* Math.round(x * 10^d) / 10^d (0 and -0 both print as 0)
QuotientText(q, d) ==
  (IF q < 0 THEN <<"-">> ELSE <<>>) \o NatToDec(Abs(q) \div Pow10(d))
     \o (IF Abs(q) % Pow10(d) = 0 THEN <<>> ELSE <<".">> \o FractionText(Abs(q) % Pow10(d), d))
\* the l and c that formatLch and formatOklch print
LchLText(v) == QuotientText(RoundTimes(v.l, 100), 2)
LchCText(v) == QuotientText(RoundTimes(Signed(FALSE, v.c), 100), 2)
OklchLText(v) == QuotientText(RoundTimes(v.l, 10000), 2)
OklchCText(v) == QuotientText(RoundTimes(Signed(FALSE, v.c), 1000), 3)

\* ------------------------------------------------------ display.js: resolve
\* converted, or the fallback for unparseable colours
OrFallback(converted, colorString) ==
  IF converted # Null THEN converted
  ELSE [hex |-> colorString, rgb |-> colorString, lch |-> colorString, oklch |-> colorString, hasAlpha |-> FALSE]

\* the resolution without the fallback
normalizeNoFallback(colorString) == convertColor(colorString)
\* normalizeColorFormat(colorString)
normalizeColorFormat(colorString) == OrFallback(convertColor(colorString), colorString)

\* ------------------------------------------------------------------ state
\* raw, out, out2, norm, key, cpc: one raw colour string taken through
\* convertColor, convertColor again on the hex it produced, and the caller's
\* resolution (normalizeColorFormat, then the key of the consolidation).
VARIABLES raw, out, out2, norm, key, cpc

\* colors: the extraction's colour data handed to displayColors; allColors,
\* colorMap (a Map, in insertion order), uniqueColors: its locals; idx: how
\* many elements of allColors the deduplication has folded; pc: its position.
VARIABLES colors, allColors, colorMap, uniqueColors, idx, pc

\* history: the calls of displayColors this process has completed, each with
\* its input and its output.
VARIABLES history

\* figmaColors: the colors array transformToFigmaFormat builds; created: the
\* paint styles createColorStyles has created (their names); fidx: how many
\* colours it has visited; fpc: the position of the export and the import.
VARIABLES figmaColors, created, fidx, fpc

\* rgbIn: the channels handed to rgbToLch and rgbToOklch; lchOut, oklchOut:
\* what they return; npc: the position of that computation.
VARIABLES rgbIn, lchOut, oklchOut, npc
\* the plugin: the messages still to come from the UI, the number of import
\* messages taken, the messages posted to the UI, the message types on which
\* closePlugin was called, the position of the handler, who calls the style
\* functions, msg.data, the fonts loadFontAsync can load, the pages and
\* styles the running call has added to the document, its counters, and the
\* fonts tried for each typography entry
VARIABLES inbox, imports, posted, closedBy, ppc, mode, data, fonts, pages, stats, cidx, paintStyles, colorCount, tidx, textStyles, textCount, attempts

cvars == <<raw, out, out2, norm, key, cpc>>
dvars == <<colors, allColors, colorMap, uniqueColors, idx, pc>>
hvars == <<history>>
fvars == <<figmaColors, created, fidx, fpc>>
nvars == <<rgbIn, lchOut, oklchOut, npc>>
pvars == <<inbox, imports, posted, closedBy, ppc, mode, data, fonts, pages, stats, cidx, paintStyles, colorCount, tidx, textStyles, textCount, attempts>>
vars == <<raw, out, out2, norm, key, cpc, colors, allColors, colorMap, uniqueColors, idx, pc, history, figmaColors, created, fidx, fpc, rgbIn, lchOut, oklchOut, npc,
          inbox, imports, posted, closedBy, ppc, mode, data, fonts, pages, stats, cidx, paintStyles, colorCount, tidx, textStyles, textCount, attempts>>

Pending == [pending |-> TRUE]

\* the values of a group of variables while its part of the program is not
\* running
ConvertIdle == raw = <<>> /\ out = Pending /\ out2 = Pending /\ norm = Pending /\ key = <<>> /\ cpc = "idle"
HistoryIdle == history = <<>>
FigmaIdle == figmaColors = <<>> /\ created = <<>> /\ fidx = 0 /\ fpc = "idle"
\* const stats = { colorStyles: 0, textStyles: 0, logoImages: 0, pages: 0 }
NoStats == [colorStyles |-> 0, textStyles |-> 0, logoImages |-> 0, pages |-> 0]
PluginIdle ==
  /\ inbox = <<>> /\ imports = 0 /\ posted = <<>> /\ closedBy = <<>> /\ ppc = "off" /\ mode = "off"
  /\ data = Null /\ fonts = {} /\ pages = <<>> /\ stats = NoStats
  /\ cidx = 0 /\ paintStyles = <<>> /\ colorCount = 0 /\ tidx = 0 /\ textStyles = <<>> /\ textCount = 0 /\ attempts = <<>>
NumericIdle == rgbIn = <<0, 0, 0>> /\ lchOut = Pending /\ oklchOut = Pending /\ npc = "idle"

\* ----------------------------------------------------------- input strings
Str_rgb == <<"r", "g", "b", "(">>
Str_rgba == <<"r", "g", "b", "a", "(">>
Str_hsl == <<"h", "s", "l", "(", "2", "0", "0", ",", "5", "0", "%", ",", "5", "0", "%", ")">>
Str_red == <<"r", "e", "d">>
Str_currentColor == <<"c", "u", "r", "r", "e", "n", "t", "C", "o", "l", "o", "r">>
Str_gradient == <<"l", "i", "n", "e", "a", "r", "-", "g", "r", "a", "d", "i", "e", "n", "t", "(">> \o Str_rgb \o <<"1", ",", " ", "2", ",", " ", "3", ")", ",", " ", "r", "e", "d", ")">>
Str_ffffff == <<"f", "f", "f", "f", "f", "f">>
Str_rgba_half == Str_rgba \o <<"2", "5", "5", ",", "0", ",", "0", ",", "0", ".", "5", ")">>
Str_rgb_modern == Str_rgb \o <<"2", "5", "5", " ", "0", " ", "0", ")">>
Str_rgb_percent == Str_rgb \o <<"1", "0", "%", ",", "2", ",", "3", ")">>

\* every sequence over alphabet A of length 0..n
SeqsUpTo(A, n) == UNION {[1..k -> A] : k \in 0..n}

\* '#' followed by up to MaxHexLen characters: a digit, a lowercase and an
\* uppercase hex letter, and a letter that is no hex digit
HexAlphabet == {"0", "c", "F", "g"}
\* six-character bodies that the longer inputs start with
HexHeads == {<<"0", "0", "0", "0", "0", "0">>, <<"F", "F", "0", "0", "c", "c">>, <<"0", "c", "g", "F", "0", "0">>, <<"g", "g", "g", "g", "g", "g">>}
\* every body of up to 6 characters, and the longer ones (up to MaxHexLen)
\* that extend one of HexHeads
HexInputs == {<<"#">> \o b : b \in SeqsUpTo(HexAlphabet, 6)} \cup {<<"#">> \o h \o t : h \in HexHeads, t \in SeqsUpTo(HexAlphabet, MaxHexLen - 6)}

\* a few '#' inputs with a sign, white space or an x, which parseInt reads
HexOddInputs == {<<"#">> \o b : b \in {<<"-", "1", "-", "1", "-", "1">>, <<"+", "f", " ", "f", "0", "x">>, <<"0", "x", "1", "0", "0", "X">>, <<"-", "0", "f">>,
                                      <<"0", "0", "0", "0", "0", "0", "-", "1">>, <<"0", "0", "0", "0", "0", "0", "8", "0">>, <<"F", "F", "0", "0", "0", "0", "0", "0">>}}

\* '#xyz' for every hexadecimal digit (of either case) in each position, the
\* other two positions taken from '#abc'
AllHexChars == Range(LowerHex) \cup Range(UpperHex)
Hex3Inputs == {<<"#", x, "b", "c">> : x \in AllHexChars} \cup {<<"#", "a", y, "c">> : y \in AllHexChars} \cup {<<"#", "a", "b", z>> : z \in AllHexChars}

ChannelTexts == {<<"0">>, <<"2", "5", "5">>, <<"2", "5", "6">>, <<"0", "7">>}
Separators == {<<",">>, <<",", " ">>, <<" ", ",">>}
\* the text of the alpha component, with whether its value is below 1
AlphaTexts == <<[text |-> <<"0">>, below1 |-> TRUE], [text |-> <<"1">>, below1 |-> FALSE], [text |-> <<"0", ".", "5">>, below1 |-> TRUE],
                [text |-> <<".", "5">>, below1 |-> TRUE], [text |-> <<"1", ".", "0">>, below1 |-> FALSE], [text |-> <<".">>, below1 |-> FALSE],
                [text |-> <<"0", ".", "5", "0">>, below1 |-> TRUE], [text |-> <<"2">>, below1 |-> FALSE], [text |-> <<"0", ".", "2", "5", ".", "1">>, below1 |-> TRUE]>>
Tails == {<<")">>, <<>>, <<"%", ")">>} \cup {s \o e.text \o <<")">> : s \in {<<",">>, <<",", " ">>}, e \in Range(AlphaTexts)}
RgbInputs == {w \o p \o c1 \o s \o c2 \o s \o c3 \o t :
                w \in {<<>>, <<"x">>}, p \in {Str_rgb, Str_rgba, <<"R", "G", "B", "(">>},
                c1 \in ChannelTexts, c2 \in ChannelTexts, c3 \in ChannelTexts, s \in Separators, t \in Tails}
ExoticInputs == {<<>>, Str_red, Str_currentColor, Str_hsl, Str_gradient, Str_ffffff, Str_rgba_half, Str_rgb_modern, Str_rgb_percent}

RawInputs == HexInputs \cup HexOddInputs \cup Hex3Inputs \cup RgbInputs \cup ExoticInputs

\* ---------------------------------------------------- JavaScript values
StrV(s) == [t |-> "string", s |-> s]
NullV == [t |-> "null"]
UndefinedV == [t |-> "undefined"]
\* an object {value, lch, oklch}
ObjV(value, lch, oklch) == [t |-> "object", value |-> value, lch |-> lch, oklch |-> oklch]
Truthy(v) == v.t = "object" \/ (v.t = "string" /\ v.s # <<>>)
NoColors == [semantic |-> <<>>, cssVariables |-> <<>>, palette |-> <<>>]

Str_F00 == <<"#", "F", "0", "0">>
Str_rgba_half_sp == Str_rgba \o <<"2", "5", "5", ",", " ", "0", ",", " ", "0", ",", " ", "0", ".", "5", ")">>
Str_HSL == <<"H", "S", "L", "(", "2", "0", "0", ",", "5", "0", "%", ",", "5", "0", "%", ")">>
\* lch and oklch texts measured upstream
Str_preLch == <<"l", "c", "h", "(", "5", "4", "%", " ", "1", "0", "7", " ", "4", "1", ")">>
Str_preOklch == <<"o", "k", "l", "c", "h", "(", "6", "3", "%", " ", "0", ".", "2", "6", " ", "2", "9", ")">>
Str_Primary == <<"P", "r", "i", "m", "a", "r", "y">>
Str_primary == <<"p", "r", "i", "m", "a", "r", "y">>
Str_Accent == <<"A", "c", "c", "e", "n", "t">>
Str_CommaSpace == <<",", " ">>

\* one entry of colors.semantic, colors.cssVariables, colors.palette
SemanticItems == {[role |-> r, color |-> c] : r \in {Str_Primary, Str_Accent}, c \in {StrV(Str_F00), StrV(Str_hsl), NullV}}
VariableItems == {[name |-> n, varData |-> d] : n \in {Str_Primary, Str_primary},
                    d \in {StrV(Str_F00), ObjV(StrV(Str_rgba_half_sp), StrV(Str_preLch), StrV(Str_preOklch)), ObjV(StrV(Str_HSL), StrV(Str_preLch), UndefinedV), NullV}}
PaletteItems == {[color |-> StrV(c), confidence |-> k, lch |-> UndefinedV, oklch |-> UndefinedV] : c \in {Str_F00, Str_HSL}, k \in {"high", "medium", "low"}}
                  \cup {[color |-> StrV(Str_rgba_half_sp), confidence |-> "medium", lch |-> StrV(Str_preLch), oklch |-> StrV(Str_preOklch)]}

\* the keys of an object are distinct
DistinctRoles(q) == \A i, j \in 1..Len(q) : i # j => q[i].role # q[j].role
DistinctNames(q) == \A i, j \in 1..Len(q) : i # j => q[i].name # q[j].name
\* the extractions with ns semantic, nv custom-property and np palette entries
ColorInputsOf(ns, nv, np) ==
  {[semantic |-> s, cssVariables |-> v, palette |-> p] :
     s \in {q \in [1..ns -> SemanticItems] : DistinctRoles(q)},
     v \in {q \in [1..nv -> VariableItems] : DistinctNames(q)},
     p \in [1..np -> PaletteItems]}
\* every extraction with at most MaxObs entries in all
ColorInputs == UNION {ColorInputsOf(u[1], u[2], u[3]) : u \in {w \in (0..MaxObs) \X (0..MaxObs) \X (0..MaxObs) : w[1] + w[2] + w[3] <= MaxObs}}

\* the limits of displayColors on custom properties and palette colours
cssVarLimit == 15
paletteLimit == 20

\* ---------------------------------------------------- long extractions
\* the colour and the custom-property name of index i: distinct for distinct i
IndexedHex(i) == <<"#", "0", "0", "0", "0">> \o PadStart2(NatToHex(i))
IndexedName(i) == <<"-", "-", "c", "o", "l", "o", "r", "-">> \o NatToDec(i)
\* how the confidences of a palette are laid out along it
ConfidencePatterns == {"mixed", "rising", "high"}
ConfidenceAt(pattern, i) ==
  IF pattern = "high" THEN "high"
  ELSE IF pattern = "rising" THEN (IF i <= paletteLimit THEN "medium" ELSE "high")
  ELSE IF i % 10 = 5 THEN "low" ELSE IF i % 2 = 1 THEN "high" ELSE "medium"
LongPalette(n, pattern) == [i \in 1..n |-> [color |-> StrV(IndexedHex(i)), confidence |-> ConfidenceAt(pattern, i), lch |-> UndefinedV, oklch |-> UndefinedV]]
\* custom properties; with holes, every seventh one is null and every
\* seventh one is an object without a value
LongVariables(n, holes) ==
  [i \in 1..n |-> [name |-> IndexedName(i),
                   varData |-> IF holes /\ i % 7 = 3 THEN NullV
                               ELSE IF holes /\ i % 7 = 5 THEN ObjV(UndefinedV, StrV(Str_preLch), UndefinedV)
                               ELSE StrV(IndexedHex(100 + i))]]
\* lengths around a limit, up to max, and the empty list
LengthsAround(limit, max) == {0} \cup ((limit - 1)..max)
LongInputs ==
  {[semantic |-> s, cssVariables |-> LongVariables(nv, holes), palette |-> LongPalette(np, pattern)] :
     s \in {<<>>, <<[role |-> Str_Primary, color |-> StrV(IndexedHex(1))]>>},
     nv \in LengthsAround(cssVarLimit, MaxVars), holes \in BOOLEAN,
     np \in LengthsAround(paletteLimit, MaxPalette), pattern \in ConfidencePatterns}

\* ------------------------------------------------ display.js: displayColors

\* the whole list, whatever the limit
TakeAll(q, limit) == q
\* q.slice(0, limit)
Take(q, limit) == SubSeq(q, 1, IF Len(q) < limit THEN Len(q) ELSE limit)

\* the computed value, whatever the observation carries
PrecomputedIgnored(pre, computed) == computed
\* (typeof varData === 'object' && varData.lch) || formats.lch
Precomputed(pre, computed) == IF pre.t = "string" /\ pre.s # <<>> THEN pre.s ELSE computed
\* the object pushed to allColors: the resolved formats, with a precomputed
\* lch / oklch in place of the computed one where there is one
Observation(formats, preLch, preOklch, label, type, confidence) ==
  [hex |-> formats.hex, rgb |-> formats.rgb, lch |-> Precomputed(preLch, formats.lch), oklch |-> Precomputed(preOklch, formats.oklch),
   hasAlpha |-> formats.hasAlpha, label |-> label, type |-> type, confidence |-> confidence]

\* the object pushed for one semantic entry [role, color]
SemanticObservation(e) == Observation(normalizeColorFormat(e.color.s), UndefinedV, UndefinedV, e.role, "semantic", "high")
SemanticKept(e) == Truthy(e.color)
\* the entries kept, each turned into its object
SemanticMapped(kept) == [i \in 1..Len(kept) |-> SemanticObservation(kept[i])]
\* what the semantic block pushes: filter, then push one object per entry
SemanticPushed(semantic) == SemanticMapped(SelectSeq(semantic, SemanticKept))

\* the body of the try block throws: varData is null (null.value), or the
\* colour value is no string (convertColor calls .match on it)
VariableThrows(e) ==
  \/ e.varData.t \in {"null", "undefined"}
  \/ (e.varData.t = "object" /\ e.varData.value.t # "string")
VariableKept(e) == ~VariableThrows(e)
\* the object pushed for one custom property [name, varData]
VariableObservation(e) ==
  Observation(normalizeColorFormat(IF e.varData.t = "string" THEN e.varData.s ELSE e.varData.value.s),
              IF e.varData.t = "object" THEN e.varData.lch ELSE UndefinedV,
              IF e.varData.t = "object" THEN e.varData.oklch ELSE UndefinedV,
              e.name, "variable", "high")
VariablesMapped(kept) == [i \in 1..Len(kept) |-> VariableObservation(kept[i])]
\* a try block around the whole forEach: the first throw ends the block
VariablesPushedAbort(cssVariables) ==
  VariablesMapped(SubSeq(Take(cssVariables, cssVarLimit), 1,
                         Cardinality({i \in 1..Len(Take(cssVariables, cssVarLimit)) : \A j \in 1..i : VariableKept(Take(cssVariables, cssVarLimit)[j])})))
\* what the custom-property block pushes: the first cssVarLimit entries, less
\* those whose try block throws
VariablesPushed(cssVariables) == VariablesMapped(SelectSeq(Take(cssVariables, cssVarLimit), VariableKept))

PaletteKept(c) == c.confidence = "high" \/ c.confidence = "medium"
\* the object pushed for one palette colour
PaletteObservation(c) == Observation(normalizeColorFormat(c.color.s), c.lch, c.oklch, <<>>, "palette", c.confidence)
PaletteMapped(kept) == [i \in 1..Len(kept) |-> PaletteObservation(kept[i])]
\* what the palette block pushes: the first paletteLimit of the high and
\* medium colours
PalettePushed(palette) == PaletteMapped(Take(SelectSeq(palette, PaletteKept), paletteLimit))

\* index of the first occurrence of sep in s at or after i, 0 when none
RECURSIVE IndexOf(_, _, _)
IndexOf(s, sep, i) == IF i + Len(sep) - 1 > Len(s) THEN 0 ELSE IF SubSeq(s, i, i + Len(sep) - 1) = sep THEN i ELSE IndexOf(s, sep, i + 1)
\* s.split(sep), for a separator that is not empty; k is the index of the
\* first sep in s
RECURSIVE SplitAt(_, _, _)
SplitAt(s, sep, k) ==
  IF k = 0 THEN <<s>>
  ELSE <<SubSeq(s, 1, k - 1)>> \o SplitAt(SubSeq(s, k + Len(sep), Len(s)), sep, IndexOf(SubSeq(s, k + Len(sep), Len(s)), sep, 1))
Split(s, sep) == SplitAt(s, sep, IndexOf(s, sep, 1))
\* q.includes(x)
Includes(q, x) == \E i \in 1..Len(q) : q[i] = x

\* the merge without the look for the label among the existing ones
MergeLabelAlways(existingLabel, colorLabel) ==
  IF colorLabel # <<>> /\ existingLabel = <<>> THEN colorLabel
  ELSE IF colorLabel # <<>> /\ existingLabel # <<>> THEN existingLabel \o Str_CommaSpace \o colorLabel ELSE existingLabel
\* the label of the existing entry after merging the label of color
MergeLabel(existingLabel, colorLabel) ==
  IF colorLabel # <<>> /\ existingLabel = <<>> THEN colorLabel
  ELSE IF colorLabel # <<>> /\ existingLabel # <<>>
       THEN IF ~Includes(Split(existingLabel, Str_CommaSpace), colorLabel) THEN existingLabel \o Str_CommaSpace \o colorLabel ELSE existingLabel
       ELSE existingLabel

\* confidenceOrder = { high: 3, medium: 2, low: 1 }
confidenceOrder(c) == IF c = "high" THEN 3 ELSE IF c = "medium" THEN 2 ELSE 1
\* the confidence of the last observation seen
MergeConfidenceLast(existingConfidence, colorConfidence) == colorConfidence
\* the confidence of the existing entry after seeing color
MergeConfidence(existingConfidence, colorConfidence) ==
  IF confidenceOrder(colorConfidence) > confidenceOrder(existingConfidence) THEN colorConfidence ELSE existingConfidence

\* the key without the change of case
DedupKeyAsIs(color) == color.hex
\* color.hex.toLowerCase()
DedupKey(color) == ToLowerCase(color.hex)
\* colorMap.has(key): the position of key in the map, 0 when absent
MapIndex(map, k) == IF \E i \in 1..Len(map) : map[i].key = k THEN CHOOSE i \in 1..Len(map) : map[i].key = k ELSE 0
\* the write as a delete and a new set, which moves the entry to the end
MapUpdateMoveLast(map, i, value) == Append(SubSeq(map, 1, i - 1) \o SubSeq(map, i + 1, Len(map)), [key |-> map[i].key, value |-> value])
\* the map after existing (the value at position i) has been written in place
MapUpdate(map, i, value) == [map EXCEPT ![i] = [key |-> map[i].key, value |-> value]]
\* colorMap.set(key, value) for a key the map does not hold
MapSetNew(map, k, value) == Append(map, [key |-> k, value |-> value])

\* the entry replaced by the later observation, with the merged label and
\* confidence
MergedOverwrite(existing, color) ==
  [color EXCEPT !.label = MergeLabel(existing.label, color.label), !.confidence = MergeConfidence(existing.confidence, color.confidence)]
\* the existing entry after the merge of color into it
Merged(existing, color) ==
  [existing EXCEPT !.label = MergeLabel(existing.label, color.label), !.confidence = MergeConfidence(existing.confidence, color.confidence)]
\* the callback with i the position of the key in the map (0 when absent)
DedupAt(map, color, i) == IF i # 0 THEN MapUpdate(map, i, Merged(map[i].value, color)) ELSE MapSetNew(map, DedupKey(color), color)
\* one call of the forEach callback of the deduplication
DedupOne(map, color) == DedupAt(map, color, MapIndex(map, DedupKey(color)))

\* the first observation of its key among the first n
FirstOfKey(all, j) == \A k \in 1..(j - 1) : DedupKey(all[k]) # DedupKey(all[j])
\* colorMap.set(key, color): the entry is the observation itself, so the
\* writes to existing are writes to the element of allColors
ObservationsShared(all, map, n) ==
  [j \in 1..Len(all) |-> IF j <= n /\ FirstOfKey(all, j) THEN map[MapIndex(map, DedupKey(all[j]))].value ELSE all[j]]
\* colorMap.set(key, { ...color }): the entry is a new object, so the writes
\* to existing reach no element of allColors; all is the array before the
\* callback on element n, map the map after it
ObservationsAfter(all, map, n) == all

DisplayInit ==
  /\ colors \in ColorInputs
  /\ allColors = <<>> /\ colorMap = <<>> /\ uniqueColors = <<>> /\ idx = 0 /\ pc = "semantic"
  /\ ConvertIdle /\ HistoryIdle /\ FigmaIdle /\ NumericIdle /\ PluginIdle

\* if (colors.semantic) ... forEach push
AddSemantic ==
  /\ pc = "semantic"
  /\ allColors' = allColors \o SemanticPushed(colors.semantic)
  /\ pc' = "variables"
  /\ UNCHANGED <<colors, colorMap, uniqueColors, idx>>
  /\ UNCHANGED <<cvars, hvars, fvars, nvars, pvars>>

\* if (colors.cssVariables) ... slice(0, limit).forEach: try push, catch skip
AddCssVariables ==
  /\ pc = "variables"
  /\ allColors' = allColors \o VariablesPushed(colors.cssVariables)
  /\ pc' = "palette"
  /\ UNCHANGED <<colors, colorMap, uniqueColors, idx>>
  /\ UNCHANGED <<cvars, hvars, fvars, nvars, pvars>>

\* if (colors.palette) ... filter, slice(0, limit).forEach push
AddPalette ==
  /\ pc = "palette"
  /\ allColors' = allColors \o PalettePushed(colors.palette)
  /\ pc' = "dedup"
  /\ UNCHANGED <<colors, colorMap, uniqueColors, idx>>
  /\ UNCHANGED <<cvars, hvars, fvars, nvars, pvars>>

\* allColors.forEach(color => ...): the callback on the next element
DedupStep ==
  /\ pc = "dedup" /\ idx < Len(allColors)
  /\ colorMap' = DedupOne(colorMap, allColors[idx + 1])
  /\ allColors' = ObservationsAfter(allColors, DedupOne(colorMap, allColors[idx + 1]), idx + 1)
  /\ idx' = idx + 1
  /\ UNCHANGED <<colors, uniqueColors, pc>>
  /\ UNCHANGED <<cvars, hvars, fvars, nvars, pvars>>

\* const uniqueColors = Array.from(colorMap.values())
CollectUnique ==
  /\ pc = "dedup" /\ idx = Len(allColors)
  /\ uniqueColors' = [i \in 1..Len(colorMap) |-> colorMap[i].value]
  /\ pc' = "done"
  /\ UNCHANGED <<colors, allColors, colorMap, idx>>
  /\ UNCHANGED <<cvars, hvars, fvars, nvars, pvars>>

Next == AddSemantic \/ AddCssVariables \/ AddPalette \/ DedupStep \/ CollectUnique

Spec == DisplayInit /\ [][Next]_vars

\* ------------------------------------------- one call after another
\* the extractions of successive calls: one semantic role and one palette
\* colour of confidence medium, several of them resolving to the same keys
CallInputs == {c \in ColorInputsOf(1, 0, 1) : c.semantic[1].role = Str_Primary /\ c.palette[1].confidence = "medium"}
\* a map that outlives the call: the one of the call before
KeptMap(old) == old
\* const colorMap = new Map(): a new, empty map in every call
NewMap(old) == <<>>
\* const allColors = []
NewArray(old) == <<>>

CallsInit ==
  /\ colors \in CallInputs
  /\ allColors = <<>> /\ colorMap = <<>> /\ uniqueColors = <<>> /\ idx = 0 /\ pc = "semantic"
  /\ ConvertIdle /\ HistoryIdle /\ FigmaIdle /\ NumericIdle /\ PluginIdle

\* displayColors returns and is called again, on any extraction
CallAgain ==
  /\ pc = "done" /\ Len(history) < MaxCalls
  /\ history' = Append(history, [input |-> colors, output |-> uniqueColors])
  /\ colors' \in CallInputs
  /\ allColors' = NewArray(allColors)
  /\ colorMap' = NewMap(colorMap)
  /\ uniqueColors' = <<>>
  /\ idx' = 0
  /\ pc' = "semantic"
  /\ UNCHANGED <<cvars, fvars, nvars, pvars>>

CallsNext == AddSemantic \/ AddCssVariables \/ AddPalette \/ DedupStep \/ CollectUnique \/ CallAgain

SpecCalls == CallsInit /\ [][CallsNext]_vars

\* displayColors on a long extraction
LongInit ==
  /\ colors \in LongInputs
  /\ allColors = <<>> /\ colorMap = <<>> /\ uniqueColors = <<>> /\ idx = 0 /\ pc = "semantic"
  /\ ConvertIdle /\ HistoryIdle /\ FigmaIdle /\ NumericIdle /\ PluginIdle
SpecLong == LongInit /\ [][Next]_vars


\* ------------------------------------------------------ the consolidation
\* the key of the i-th observation
KeyAt(i) == ToLowerCase(allColors[i].hex)
\* the keys of the first n observations, each once, in first-seen order
RECURSIVE FirstSeenKeys(_)
FirstSeenKeys(n) == IF n = 0 THEN <<>> ELSE LET q == FirstSeenKeys(n - 1) IN IF Includes(q, KeyAt(n)) THEN q ELSE Append(q, KeyAt(n))
\* the distinct non-empty labels of the observations of key k among the
\* first n, in first-seen order
RECURSIVE LabelsSeen(_, _)
LabelsSeen(k, n) ==
  IF n = 0 THEN <<>>
  ELSE LET q == LabelsSeen(k, n - 1)
           l == allColors[n].label
       IN IF KeyAt(n) = k /\ l # <<>> /\ ~Includes(q, l) THEN Append(q, l) ELSE q
RECURSIVE JoinCommaSpace(_)
JoinCommaSpace(q) == IF q = <<>> THEN <<>> ELSE IF Len(q) = 1 THEN q[1] ELSE q[1] \o Str_CommaSpace \o JoinCommaSpace(Tail(q))
\* the highest confidence rank among the observations of key k in the first n
MaxRankSeen(k, n) == LET R == {confidenceOrder(allColors[j].confidence) : j \in {i \in 1..n : KeyAt(i) = k}} IN CHOOSE r \in R : \A x \in R : x <= r
\* the consolidated entries so far, and their keys
Entries == IF pc = "done" THEN uniqueColors ELSE [i \in 1..Len(colorMap) |-> colorMap[i].value]
EntryKey(i) == ToLowerCase(Entries[i].hex)
Folding == pc \in {"dedup", "done"}

\* C1: the consolidated output holds exactly one entry for each distinct
\* lowercase hex of the observations: no two entries have the same lowercase
\* hex and no key of the input is missing (nor is any entry's key foreign).
C1_OneEntryPerKey ==
  Folding =>
     /\ \A i, j \in 1..Len(Entries) : i # j => EntryKey(i) # EntryKey(j)
     /\ {EntryKey(i) : i \in 1..Len(Entries)} = {KeyAt(i) : i \in 1..idx}
     /\ pc = "done" => (idx = Len(allColors) /\ Len(uniqueColors) = Cardinality({KeyAt(i) : i \in 1..Len(allColors)}))
C1_Witness ==
  /\ pc = "done" /\ Len(uniqueColors) = 2 /\ Len(allColors) = 3
  /\ \E i, j \in 1..3 : i < j /\ allColors[i].hex # allColors[j].hex /\ KeyAt(i) = KeyAt(j)

\* C2: the entries stand in the order in which their keys first occur among
\* the observations, after every step of the fold and in the output; a later
\* duplicate does not move an entry.
C2_FirstOccurrenceOrder == Folding => [i \in 1..Len(Entries) |-> EntryKey(i)] = FirstSeenKeys(idx)
C2_Witness ==
  /\ pc = "done" /\ Len(allColors) = 3 /\ Len(uniqueColors) = 2
  /\ KeyAt(1) = KeyAt(3) /\ KeyAt(1) # KeyAt(2)
  /\ allColors[1].confidence = "medium" /\ allColors[3].confidence = "high"
  /\ EntryKey(1) = KeyAt(1) /\ EntryKey(2) = KeyAt(2)

\* C3: the label of an entry is the distinct non-empty labels of the
\* observations with its key, joined by ', ' in first-seen order, whatever
\* their confidences: a label already there is not appended again, a new one
\* is.  (Labels are role names and custom-property names; none holds ', '.)
C3_MergedLabel == Folding => \A i \in 1..Len(Entries) : Entries[i].label = JoinCommaSpace(LabelsSeen(EntryKey(i), idx))
C3_Witness ==
  /\ pc = "done" /\ Len(allColors) = 3 /\ Len(uniqueColors) = 1
  /\ allColors[1].label = Str_Primary /\ allColors[2].label = Str_Accent /\ allColors[3].label = Str_Primary
  /\ uniqueColors[1].label = Str_Primary \o Str_CommaSpace \o Str_Accent

\* C4: after each step of the fold, the confidence of every entry is the
\* highest (high > medium > low) among the observations with its key folded
\* so far; so it never goes down from one step to the next.
C4_MaxConfidence == Folding => \A i \in 1..Len(Entries) : confidenceOrder(Entries[i].confidence) = MaxRankSeen(EntryKey(i), idx)
C4_Witness ==
  /\ pc = "dedup" /\ idx = 3 /\ Len(colorMap) = 1
  /\ allColors[1].confidence = "medium" /\ allColors[2].confidence = "high" /\ allColors[3].confidence = "medium"
  /\ colorMap[1].value.confidence = "high"


\* ------------------------------------------------- conversion of one string
ConvertInit ==
  /\ raw \in RawInputs
  /\ out = Pending /\ out2 = Pending /\ norm = Pending /\ key = <<>>
  /\ cpc = "start"
  /\ colors = NoColors /\ allColors = <<>> /\ colorMap = <<>> /\ uniqueColors = <<>> /\ idx = 0 /\ pc = "idle"
  /\ HistoryIdle /\ FigmaIdle /\ NumericIdle /\ PluginIdle

\* out = convertColor(raw)
Convert ==
  /\ cpc = "start"
  /\ out' = convertColor(raw)
  /\ cpc' = "converted"
  /\ UNCHANGED <<raw, out2, norm, key>>
  /\ UNCHANGED <<dvars, hvars, fvars, nvars, pvars>>

\* out2 = convertColor(out.hex), when out is a record
Reconvert ==
  /\ cpc = "converted" /\ out # Null
  /\ out2' = convertColor(out.hex)
  /\ cpc' = "reconverted"
  /\ UNCHANGED <<raw, out, norm, key>>
  /\ UNCHANGED <<dvars, hvars, fvars, nvars, pvars>>

\* formats = normalizeColorFormat(raw), as displayColors resolves a colour
Normalize ==
  /\ cpc = "start"
  /\ norm' = normalizeColorFormat(raw)
  /\ cpc' = "normalized"
  /\ UNCHANGED <<raw, out, out2, key>>
  /\ UNCHANGED <<dvars, hvars, fvars, nvars, pvars>>

\* key = color.hex.toLowerCase(), the first step of the consolidation on a
\* resolved colour; reading .hex of null raises a TypeError
KeyOf ==
  /\ cpc = "normalized"
  /\ IF norm = Null
     THEN cpc' = "raised" /\ key' = key
     ELSE cpc' = "keyed" /\ key' = DedupKey(norm)
  /\ UNCHANGED <<raw, out, out2, norm>>
  /\ UNCHANGED <<dvars, hvars, fvars, nvars, pvars>>

ConvertNext == Convert \/ Reconvert \/ Normalize \/ KeyOf

SpecConvert == ConvertInit /\ [][ConvertNext]_vars


\* ------------------------------------------------------ figma-exporter.js
\* s.replace(t, ''): s without the first occurrence of t
RemoveFirst(s, t) == IF IndexOf(s, t, 1) = 0 THEN s ELSE SubSeq(s, 1, IndexOf(s, t, 1) - 1) \o SubSeq(s, IndexOf(s, t, 1) + Len(t), Len(s))
\* parseInt(cleanHex.substring(a, b), 16) / 255: the number read, over 255
FigmaChannel(cleanHex, a, b) == ParseInt16(Slice(cleanHex, a, b))
HexBodyToFigmaRgb(cleanHex) == [r |-> FigmaChannel(cleanHex, 0, 2), g |-> FigmaChannel(cleanHex, 2, 4), b |-> FigmaChannel(cleanHex, 4, 6)]
\* hexToFigmaRgb(hex)
hexToFigmaRgb(hex) == HexBodyToFigmaRgb(RemoveFirst(hex, <<"#">>))

\* /rgba?\((\d+),\s*(\d+),\s*(\d+)/ tried at index i of s
AnyBlueRun(s, g1, g2, k3, d3) == IF d3 > k3 THEN Matched(g1, g2, SubSeq(s, k3, d3 - 1), FALSE, <<>>, d3 - 1) ELSE NoMatch
AnyGreenRun(s, g1, k2, d2) == IF d2 > k2 /\ At(s, d2) = "," THEN AnyBlueRun(s, g1, SubSeq(s, k2, d2 - 1), SkipSpaces(s, d2 + 1), SkipDigits(s, SkipSpaces(s, d2 + 1))) ELSE NoMatch
AnyRedRun(s, k1, d1) == IF d1 > k1 /\ At(s, d1) = "," THEN AnyGreenRun(s, SubSeq(s, k1, d1 - 1), SkipSpaces(s, d1 + 1), SkipDigits(s, SkipSpaces(s, d1 + 1))) ELSE NoMatch
AnyOpen(s, j0) == IF At(s, j0) = "(" THEN AnyRedRun(s, j0 + 1, SkipDigits(s, j0 + 1)) ELSE NoMatch
AnyRgbAt(s, i) ==
  IF At(s, i) = "r" /\ At(s, i + 1) = "g" /\ At(s, i + 2) = "b"
  THEN AnyOpen(s, IF At(s, i + 3) = "a" THEN i + 4 ELSE i + 3)
  ELSE NoMatch
AnyRgbFirst(s, hits) == IF hits = {} THEN NoMatch ELSE AnyRgbAt(s, CHOOSE i \in hits : \A j \in hits : i <= j)
AnyRgbMatch(s) == AnyRgbFirst(s, {i \in 1..Len(s) : AnyRgbAt(s, i).matched})
AnyMatchToHex(m, color) ==
  IF m.matched THEN <<"#">> \o PadStart2(ToString16(ParseIntDec(m.g1))) \o PadStart2(ToString16(ParseIntDec(m.g2))) \o PadStart2(ToString16(ParseIntDec(m.g3)))
  ELSE color
\* anyColorToHex(color)
anyColorToHex(color) == IF StartsWith(color, <<"#">>) THEN color ELSE AnyMatchToHex(AnyRgbMatch(color), color)

semanticTerms == <<<<"p", "r", "i", "m", "a", "r", "y">>, <<"s", "e", "c", "o", "n", "d", "a", "r", "y">>, <<"a", "c", "c", "e", "n", "t">>, <<"s", "u", "c", "c", "e", "s", "s">>, <<"e", "r", "r", "o", "r">>, <<"w", "a", "r", "n", "i", "n", "g">>, <<"i", "n", "f", "o">>, <<"b", "r", "a", "n", "d">>, <<"b", "a", "c", "k", "g", "r", "o", "u", "n", "d">>, <<"t", "e", "x", "t">>, <<"b", "o", "r", "d", "e", "r">>>>
\* term.charAt(0).toUpperCase() + term.slice(1), for a lowercase term
UpperChar(c) == IF c \in Range(LowerLetters) THEN UpperLetters[CHOOSE i \in 1..26 : LowerLetters[i] = c] ELSE c
Capitalized(term) == <<UpperChar(term[1])>> \o SliceFrom(term, 1)
\* the for loop over semanticTerms: the first term the source holds
TermsHeld(source) == {k \in DOMAIN semanticTerms : Contains(ToLowerCase(source), semanticTerms[k])}
FirstTerm(held) == semanticTerms[CHOOSE k \in held : \A j \in held : k <= j]
FallbackName(index, hexColor) == <<"C", "o", "l", "o", "r", " ">> \o NatToDec(index + 1) \o <<" ", "(">> \o hexColor \o <<")">>
\* generateColorStyleName(color, index, hexColor), index counted from 0
generateColorStyleName(color, index, hexColor) ==
  IF Len(color.sources) > 0 /\ TermsHeld(color.sources[1]) # {} THEN Capitalized(FirstTerm(TermsHeld(color.sources[1])))
  ELSE FallbackName(index, hexColor)

\* the limit of transformToFigmaFormat on palette colours
figmaColorLimit == 20
\* color.normalized || anyColorToHex(color.color)
HexColorOf(color) == IF Truthy(color.normalized) THEN color.normalized.s ELSE anyColorToHex(color.color.s)
FigmaColor(name, hex, confidence, sources) == [name |-> name, hex |-> hex, rgb |-> hexToFigmaRgb(hex), confidence |-> confidence, sources |-> sources]
FigmaPaletteColor(color, index) == FigmaColor(generateColorStyleName(color, index, HexColorOf(color)), HexColorOf(color), color.confidence, color.sources)
FigmaTopColors(topColors) == [i \in 1..Len(topColors) |-> FigmaPaletteColor(topColors[i], i - 1)]
\* what the palette block pushes: the first 20 of the high and medium colours
FigmaPalettePushed(palette) == FigmaTopColors(Take(SelectSeq(palette, PaletteKept), figmaColorLimit))

\* varName.includes('color') || varName.includes('bg') || varName.includes('text')
ColorRelated(varName) == Contains(varName, <<"c", "o", "l", "o", "r">>) \/ Contains(varName, <<"b", "g">>) \/ Contains(varName, <<"t", "e", "x", "t">>)
\* varValue.match(/#[0-9a-fA-F]{6}/): the index of the first match, 0 when none
HexMatchAt(s, i) == At(s, i) = "#" /\ \A k \in 1..6 : IsHexDigit(At(s, i + k))
HexMatchIndex(s) == IF \E i \in 1..Len(s) : HexMatchAt(s, i) THEN CHOOSE i \in 1..Len(s) : HexMatchAt(s, i) /\ \A j \in 1..(i - 1) : ~HexMatchAt(s, j) ELSE 0
\* varValue.match is called on a value that is no string: a TypeError
VariableMatchThrows(e) == ColorRelated(e.name) /\ e.value.t # "string"
VariableExported(e) == ColorRelated(e.name) /\ e.value.t = "string" /\ HexMatchIndex(e.value.s) # 0
VariableHex(e) == SubSeq(e.value.s, HexMatchIndex(e.value.s), HexMatchIndex(e.value.s) + 6)
FigmaVariableColor(e) == FigmaColor(<<"C", "S", "S", " ", "V", "a", "r", "i", "a", "b", "l", "e", "/">> \o RemoveFirst(e.name, <<"-", "-">>), VariableHex(e), "high", <<e.name>>)
FigmaVariablesMapped(kept) == [i \in 1..Len(kept) |-> FigmaVariableColor(kept[i])]
\* what the custom-property block pushes: every colour-related one with a hex
FigmaVariablesPushed(cssVariables) == FigmaVariablesMapped(SelectSeq(cssVariables, VariableExported))

\* JSON.stringify and JSON.parse of a channel: NaN becomes null
JsonChannel(n) == IF n.nan THEN Null ELSE n
JsonColor(c) == [c EXCEPT !.rgb = [r |-> JsonChannel(c.rgb.r), g |-> JsonChannel(c.rgb.g), b |-> JsonChannel(c.rgb.b)]]
JsonColors(q) == [i \in 1..Len(q) |-> JsonColor(q[i])]
\* color.rgb.r === null || color.rgb.g === null || color.rgb.b === null
NullRgb(c) == c.rgb.r = Null \/ c.rgb.g = Null \/ c.rgb.b = Null
StyleName(c) == <<"D", "e", "m", "b", "r", "a", "n", "d", "t", "/">> \o c.name

\* ------------------------------------------------- extractions to export
Str_btnPrimary == <<".", "b", "t", "n", "-", "P", "r", "i", "m", "a", "r", "y">>
IndexedRgb(i) == Str_rgb \o <<"0", ",", " ", "0", ",", " ">> \o NatToDec(i) \o <<")">>
\* the palette colour of index i: a hex, an rgb() text with or without the
\* normalized hex, a hex with a source; the seventh is a named colour
FigmaPaletteItem(i, confidence) ==
  [color |-> StrV(IF i = 7 THEN Str_red ELSE IF i % 2 = 0 THEN IndexedRgb(i) ELSE IndexedHex(i)),
   normalized |-> IF i % 4 = 0 THEN StrV(IndexedHex(i)) ELSE UndefinedV,
   confidence |-> confidence,
   sources |-> IF i % 4 = 3 THEN <<Str_btnPrimary>> ELSE <<>>]
FigmaPalette(n, pattern) == [i \in 1..n |-> FigmaPaletteItem(i, ConfidenceAt(pattern, i))]
\* custom properties: colour-related names with a hex, with the third one
\* of another name; or with a value that holds no hex; or with an object
FigmaVariableKinds == {"colors", "lengths", "objects"}
FigmaVariableItem(i, kind) ==
  [name |-> IF i % 3 = 0 THEN <<"-", "-", "g", "a", "p", "-">> \o NatToDec(i) ELSE IndexedName(i),
   value |-> IF kind = "colors" THEN StrV(IndexedHex(100 + i))
             ELSE IF kind = "lengths" THEN StrV(NatToDec(i) \o <<"p", "x">>)
             ELSE ObjV(StrV(IndexedHex(100 + i)), UndefinedV, UndefinedV)]
FigmaVariables(n, kind) == [i \in 1..n |-> FigmaVariableItem(i, kind)]
FigmaInputs ==
  {[semantic |-> <<>>, cssVariables |-> FigmaVariables(nv, kind), palette |-> FigmaPalette(np, pattern)] :
     nv \in 0..MaxFigmaVars, kind \in FigmaVariableKinds,
     np \in LengthsAround(figmaColorLimit, MaxPalette), pattern \in ConfidencePatterns}

FigmaInit ==
  /\ colors \in FigmaInputs
  /\ allColors = <<>> /\ colorMap = <<>> /\ uniqueColors = <<>> /\ idx = 0 /\ pc = "idle"
  /\ ConvertIdle /\ HistoryIdle /\ NumericIdle /\ PluginIdle
  /\ figmaColors = <<>> /\ created = <<>> /\ fidx = 0 /\ fpc = "palette"

\* transformToFigmaFormat: if (colors && colors.palette) ... forEach push
ExportPalette ==
  /\ fpc = "palette"
  /\ figmaColors' = figmaColors \o FigmaPalettePushed(colors.palette)
  /\ fpc' = "variables"
  /\ UNCHANGED <<created, fidx>>
  /\ UNCHANGED <<cvars, dvars, hvars, nvars, pvars>>

\* transformToFigmaFormat: if (colors && colors.cssVariables) ... forEach push;
\* a value that is no string makes it throw
ExportVariables ==
  /\ fpc = "variables"
  /\ IF \E i \in 1..Len(colors.cssVariables) : VariableMatchThrows(colors.cssVariables[i])
     THEN fpc' = "threw" /\ figmaColors' = <<>>
     ELSE fpc' = "exported" /\ figmaColors' = figmaColors \o FigmaVariablesPushed(colors.cssVariables)
  /\ UNCHANGED <<created, fidx>>
  /\ UNCHANGED <<cvars, dvars, hvars, nvars, pvars>>

\* the data goes to the plugin as JSON; importDesignSystem(data) reads colors
ImportDesignSystem ==
  /\ fpc = "exported"
  /\ figmaColors' = JsonColors(figmaColors)
  /\ fpc' = IF Len(figmaColors) > 0 THEN "styles" ELSE "placeholder"
  /\ UNCHANGED <<created, fidx>>
  /\ UNCHANGED <<cvars, dvars, hvars, nvars, pvars>>

\* createColorStyles: the body of the for loop on the next colour
CreateColorStyle ==
  /\ fpc = "styles" /\ fidx < Len(figmaColors)
  /\ created' = IF NullRgb(figmaColors[fidx + 1]) THEN created ELSE Append(created, StyleName(figmaColors[fidx + 1]))
  /\ fidx' = fidx + 1
  /\ UNCHANGED <<figmaColors, fpc>>
  /\ UNCHANGED <<cvars, dvars, hvars, nvars, pvars>>

\* createColorStyles: return count
ReturnCount ==
  /\ fpc = "styles" /\ fidx = Len(figmaColors)
  /\ fpc' = "imported"
  /\ UNCHANGED <<figmaColors, created, fidx>>
  /\ UNCHANGED <<cvars, dvars, hvars, nvars, pvars>>

FigmaNext == ExportPalette \/ ExportVariables \/ ImportDesignSystem \/ CreateColorStyle \/ ReturnCount

SpecFigma == FigmaInit /\ [][FigmaNext]_vars

\* ----------------------------------------------------- the Figma plugin
\* { family, style }
Font(family, style) == [family |-> family, style |-> style]
\* the fonts the style functions ask for, and those the pages ask for too
StyleFonts == {Font(f, st) : f \in {"Acme", "Inter", "Roboto"}, st \in {"Bold", "Regular"}}
AllFonts == StyleFonts \cup {Font("Inter", "Medium")}
\* the order with Inter before the extracted family
fontsToTryInterFirst(typo) ==
  <<Font("Inter", typo.fontStyle), Font("Inter", "Regular"), Font(typo.fontFamily, typo.fontStyle), Font(typo.fontFamily, "Regular"),
    Font("Roboto", typo.fontStyle), Font("Roboto", "Regular")>>
\* const fontsToTry = [...] of createTextStyles
fontsToTry(typo) ==
  <<Font(typo.fontFamily, typo.fontStyle), Font(typo.fontFamily, "Regular"), Font("Inter", typo.fontStyle), Font("Inter", "Regular"),
    Font("Roboto", typo.fontStyle), Font("Roboto", "Regular")>>
\* await figma.loadFontAsync(font) resolves: the font is one Figma can load
Loads(available, font) == font \in available
\* `Dembrandt/${typo.name}`
TextStyleName(typo) == <<"D", "e", "m", "b", "r", "a", "n", "d", "t", "/">> \o typo.name
\* figma.createTextStyle(): a new text style of the document, without a font
NewTextStyle(typo) == [name |-> TextStyleName(typo), fontName |-> Null, counted |-> FALSE]
\* style.fontSize = typo.fontSize is refused by Figma: a size below 1
TextPropsThrow(typo) == typo.fontSize < 1
\* style.paints = [paint] is refused by Figma: a channel that is NaN or
\* outside 0..1
ChannelRefused(n) == n.nan \/ n.v < 0 \/ n.v > MaxChannel
PaintThrows(c) == ChannelRefused(c.rgb.r) \/ ChannelRefused(c.rgb.g) \/ ChannelRefused(c.rgb.b)

\* the two fonts every page asks for, and the third of the section headers
InterLoads(available) == Loads(available, Font("Inter", "Bold")) /\ Loads(available, Font("Inter", "Regular"))
MediumLoads(available) == Loads(available, Font("Inter", "Medium"))
\* createPlaceholderPage throws after figma.createPage()
PlaceholderThrows(available) == ~InterLoads(available)
\* createColorDocumentationPage throws after figma.createPage()
ColorPageThrows(d, available) ==
  \/ ~InterLoads(available)
  \/ d.metadata = Null
  \/ \E i \in 1..Len(d.colors) : ~NullRgb(d.colors[i]) /\ (PaintThrows(d.colors[i]) \/ ~MediumLoads(available))
\* the fonts createTypographyDocumentationPage tries for a sample
SampleFontLoads(typo, available) ==
  Loads(available, Font(typo.fontFamily, typo.fontStyle)) \/ Loads(available, Font(typo.fontFamily, "Regular")) \/ Loads(available, Font("Inter", "Regular"))
\* createTypographyDocumentationPage throws after figma.createPage()
TypographyPageThrows(d, available) ==
  \/ ~InterLoads(available)
  \/ d.metadata = Null
  \/ \E i \in 1..Len(d.typography) : SampleFontLoads(d.typography[i], available) /\ d.typography[i].fontSize < 1
\* (logo && logo.url) || (favicons && favicons.length > 0)
HasLogoSection(d) == (d.logo # Null /\ d.logo.url # <<>>) \/ Len(d.favicons) > 0
\* createLogoDocumentationPage throws after figma.createPage()
LogoPageThrows(d, available) == ~InterLoads(available) \/ d.metadata = Null \/ ~MediumLoads(available)
\* return imagesCreated
ImagesCreated(d) == (IF d.logo # Null /\ d.logo.url # <<>> THEN 1 ELSE 0) + Len(d.favicons)

\* the page is not counted
CountPageNot(st) == st
\* stats.pages++
CountPage(st) == [st EXCEPT !.pages = @ + 1]
\* the catch block posts nothing
PostErrorNot(q, err) == q
\* figma.ui.postMessage({ type: 'import-error', error: err.message })
PostError(q, err) == Append(q, [type |-> "import-error", error |-> err])
\* figma.ui.postMessage({ type: 'import-complete', stats: stats })
PostComplete(q, st) == Append(q, [type |-> "import-complete", stats |-> st])

\* the data of an import message
PluginColorPatterns == {"valid", "nulls", "refused"}
PluginColor(i, pattern) ==
  [name |-> NatToDec(i), hex |-> IndexedHex(i),
   rgb |-> [r |-> IF pattern = "nulls" /\ i % 2 = 1 THEN Null ELSE IF pattern = "refused" /\ i % 2 = 1 THEN Num(-1) ELSE Num(MaxChannel),
            g |-> Num(0), b |-> Num(i)]]
PluginColors(n, pattern) == [i \in 1..n |-> PluginColor(i, pattern)]
PluginTypographyPatterns == {"sizes", "zero"}
PluginTypo(i, pattern) ==
  [name |-> NatToDec(i), fontFamily |-> IF i % 2 = 1 THEN "Acme" ELSE "Inter", fontStyle |-> IF i % 3 = 0 THEN "Regular" ELSE "Bold",
   fontSize |-> IF pattern = "zero" /\ i = 1 THEN 0 ELSE 16]
PluginTypography(n, pattern) == [i \in 1..n |-> PluginTypo(i, pattern)]
PluginLogos == {[logo |-> Null, favicons |-> <<>>], [logo |-> [url |-> <<"l">>], favicons |-> <<>>], [logo |-> Null, favicons |-> <<[type |-> "icon"]>>]}
PluginData ==
  {[metadata |-> m, colors |-> PluginColors(nc, cp), typography |-> PluginTypography(nt, tp), logo |-> l.logo, favicons |-> l.favicons] :
     m \in {[sourceDomain |-> "example.com"], Null},
     nc \in 0..MaxPluginColors, cp \in PluginColorPatterns,
     nt \in 0..MaxTypography, tp \in PluginTypographyPatterns,
     l \in PluginLogos}
\* the messages of the UI: a message with no data too
Messages(d) ==
  {<<[type |-> "import", data |-> d]>>,
   <<[type |-> "import", data |-> d], [type |-> "cancel", data |-> Null]>>,
   <<[type |-> "resize", data |-> Null], [type |-> "import", data |-> d], [type |-> "import", data |-> Null]>>,
   <<[type |-> "cancel", data |-> Null], [type |-> "import", data |-> d]>>}
PluginFontSets ==
  {{}, {Font("Inter", "Regular")}, {Font("Inter", "Bold"), Font("Inter", "Regular")},
   {Font("Inter", "Bold"), Font("Inter", "Regular"), Font("Inter", "Medium")},
   {Font("Inter", "Bold"), Font("Inter", "Regular"), Font("Inter", "Medium"), Font("Acme", "Regular")},
   AllFonts}

\* figma.showUI(...): the plugin waits for messages
PluginInit ==
  /\ colors = NoColors /\ allColors = <<>> /\ colorMap = <<>> /\ uniqueColors = <<>> /\ idx = 0 /\ pc = "idle"
  /\ ConvertIdle /\ HistoryIdle /\ FigmaIdle /\ NumericIdle
  /\ inbox \in UNION {Messages(d) : d \in PluginData}
  /\ fonts \in PluginFontSets
  /\ imports = 0 /\ posted = <<>> /\ closedBy = <<>> /\ ppc = "idle" /\ mode = "plugin"
  /\ data = Null /\ pages = <<>> /\ stats = NoStats
  /\ cidx = 0 /\ paintStyles = <<>> /\ colorCount = 0 /\ tidx = 0 /\ textStyles = <<>> /\ textCount = 0 /\ attempts = <<>>

\* createColorStyles(colors), then createTextStyles(typography), called on
\* their own
StylesInit ==
  /\ colors = NoColors /\ allColors = <<>> /\ colorMap = <<>> /\ uniqueColors = <<>> /\ idx = 0 /\ pc = "idle"
  /\ ConvertIdle /\ HistoryIdle /\ FigmaIdle /\ NumericIdle
  /\ inbox = <<>> /\ imports = 0 /\ posted = <<>> /\ closedBy = <<>> /\ ppc = "colorStyles" /\ mode = "calls"
  /\ data \in {d \in PluginData : d.metadata # Null /\ d.logo = Null /\ d.favicons = <<>>}
  /\ fonts \in SUBSET StyleFonts
  /\ pages = <<>> /\ stats = NoStats
  /\ cidx = 0 /\ paintStyles = <<>> /\ colorCount = 0 /\ tidx = 0 /\ textStyles = <<>> /\ textCount = 0 /\ attempts = <<>>

\* figma.ui.onmessage: cancel closes the plugin, import calls
\* importDesignSystem(msg.data) in the try block, any other type does nothing
OnMessage ==
  /\ ppc = "idle" /\ inbox # <<>> /\ closedBy = <<>>
  /\ inbox' = Tail(inbox)
  /\ closedBy' = IF Head(inbox).type = "cancel" THEN Append(closedBy, Head(inbox).type) ELSE closedBy
  /\ imports' = IF Head(inbox).type = "import" THEN imports + 1 ELSE imports
  /\ data' = IF Head(inbox).type = "import" THEN Head(inbox).data ELSE data
  /\ ppc' = IF Head(inbox).type = "import" THEN "import" ELSE "idle"
  /\ UNCHANGED <<posted, mode, fonts, pages, stats, cidx, paintStyles, colorCount, tidx, textStyles, textCount, attempts>>
  /\ UNCHANGED <<cvars, dvars, hvars, fvars, nvars>>

\* importDesignSystem: const { metadata, colors, ... } = data; const stats
ImportStart ==
  /\ ppc = "import"
  /\ ppc' = IF data = Null THEN "threw" ELSE "colors"
  /\ stats' = NoStats /\ pages' = <<>>
  /\ cidx' = 0 /\ paintStyles' = <<>> /\ colorCount' = 0 /\ tidx' = 0 /\ textStyles' = <<>> /\ textCount' = 0 /\ attempts' = <<>>
  /\ UNCHANGED <<inbox, imports, posted, closedBy, mode, data, fonts>>
  /\ UNCHANGED <<cvars, dvars, hvars, fvars, nvars>>

\* if (colors && colors.length > 0): createColorStyles is called
ColorStylesBegin ==
  /\ ppc = "colors" /\ Len(data.colors) > 0
  /\ ppc' = "colorStyles"
  /\ UNCHANGED <<inbox, imports, posted, closedBy, mode, data, fonts, pages, stats, cidx, paintStyles, colorCount, tidx, textStyles, textCount, attempts>>
  /\ UNCHANGED <<cvars, dvars, hvars, fvars, nvars>>

\* createColorStyles: the body of the for loop on the next colour; a colour
\* with a null channel is skipped before figma.createPaintStyle(), a throw
\* after it is caught before count++
ColorStyleStep ==
  /\ ppc = "colorStyles" /\ cidx < Len(data.colors)
  /\ paintStyles' = IF NullRgb(data.colors[cidx + 1]) THEN paintStyles ELSE Append(paintStyles, StyleName(data.colors[cidx + 1]))
  /\ colorCount' = IF NullRgb(data.colors[cidx + 1]) \/ PaintThrows(data.colors[cidx + 1]) THEN colorCount ELSE colorCount + 1
  /\ cidx' = cidx + 1
  /\ UNCHANGED <<inbox, imports, posted, closedBy, ppc, mode, data, fonts, pages, stats, tidx, textStyles, textCount, attempts>>
  /\ UNCHANGED <<cvars, dvars, hvars, fvars, nvars>>

\* createColorStyles: return count; stats.colorStyles = ...
ColorStylesReturn ==
  /\ ppc = "colorStyles" /\ cidx = Len(data.colors)
  /\ stats' = [stats EXCEPT !.colorStyles = colorCount]
  /\ ppc' = IF mode = "plugin" THEN "colorPage" ELSE "textStyles"
  /\ UNCHANGED <<inbox, imports, posted, closedBy, mode, data, fonts, pages, cidx, paintStyles, colorCount, tidx, textStyles, textCount, attempts>>
  /\ UNCHANGED <<cvars, dvars, hvars, fvars, nvars>>

\* await createColorDocumentationPage(colors, metadata); stats.pages++
ColorPage ==
  /\ ppc = "colorPage"
  /\ pages' = Append(pages, "Colors")
  /\ stats' = IF ColorPageThrows(data, fonts) THEN stats ELSE CountPage(stats)
  /\ ppc' = IF ColorPageThrows(data, fonts) THEN "threw" ELSE "typography"
  /\ UNCHANGED <<inbox, imports, posted, closedBy, mode, data, fonts, cidx, paintStyles, colorCount, tidx, textStyles, textCount, attempts>>
  /\ UNCHANGED <<cvars, dvars, hvars, fvars, nvars>>

\* else: await createPlaceholderPage('Colors', ...); stats.pages++
ColorPlaceholder ==
  /\ ppc = "colors" /\ Len(data.colors) = 0
  /\ pages' = Append(pages, "Colors")
  /\ stats' = IF PlaceholderThrows(fonts) THEN stats ELSE CountPage(stats)
  /\ ppc' = IF PlaceholderThrows(fonts) THEN "threw" ELSE "typography"
  /\ UNCHANGED <<inbox, imports, posted, closedBy, mode, data, fonts, cidx, paintStyles, colorCount, tidx, textStyles, textCount, attempts>>
  /\ UNCHANGED <<cvars, dvars, hvars, fvars, nvars>>

\* if (typography && typography.length > 0): createTextStyles is called
TextStylesBegin ==
  /\ ppc = "typography" /\ Len(data.typography) > 0
  /\ ppc' = "textStyles"
  /\ UNCHANGED <<inbox, imports, posted, closedBy, mode, data, fonts, pages, stats, cidx, paintStyles, colorCount, tidx, textStyles, textCount, attempts>>
  /\ UNCHANGED <<cvars, dvars, hvars, fvars, nvars>>

\* createTextStyles: const style = figma.createTextStyle(); style.name = ...
TextStyleCreate ==
  /\ ppc = "textStyles" /\ tidx < Len(data.typography)
  /\ textStyles' = Append(textStyles, NewTextStyle(data.typography[tidx + 1]))
  /\ attempts' = Append(attempts, <<>>)
  /\ ppc' = "fonts"
  /\ UNCHANGED <<inbox, imports, posted, closedBy, mode, data, fonts, pages, stats, cidx, paintStyles, colorCount, tidx, textCount>>
  /\ UNCHANGED <<cvars, dvars, hvars, fvars, nvars>>

\* createTextStyles: one turn of for (const font of fontsToTry): the font
\* loads, the style gets it and the loop ends; or the next one is tried; or
\* the last one failed and the entry is skipped
TryFont ==
  /\ ppc = "fonts"
  /\ attempts' = [attempts EXCEPT ![tidx + 1] = Append(@, fontsToTry(data.typography[tidx + 1])[Len(@) + 1])]
  /\ IF Loads(fonts, fontsToTry(data.typography[tidx + 1])[Len(attempts[tidx + 1]) + 1])
     THEN /\ textStyles' = [textStyles EXCEPT ![tidx + 1].fontName = fontsToTry(data.typography[tidx + 1])[Len(attempts[tidx + 1]) + 1]]
          /\ ppc' = "properties" /\ tidx' = tidx
     ELSE /\ textStyles' = textStyles
          /\ ppc' = IF Len(attempts[tidx + 1]) + 1 = Len(fontsToTry(data.typography[tidx + 1])) THEN "textStyles" ELSE "fonts"
          /\ tidx' = IF Len(attempts[tidx + 1]) + 1 = Len(fontsToTry(data.typography[tidx + 1])) THEN tidx + 1 ELSE tidx
  /\ UNCHANGED <<inbox, imports, posted, closedBy, mode, data, fonts, pages, stats, cidx, paintStyles, colorCount, textCount>>
  /\ UNCHANGED <<cvars, dvars, hvars, fvars, nvars>>

\* createTextStyles: style.fontSize = ... to count++; a throw is caught
\* before count++
TextStyleProperties ==
  /\ ppc = "properties"
  /\ textCount' = IF TextPropsThrow(data.typography[tidx + 1]) THEN textCount ELSE textCount + 1
  /\ textStyles' = [textStyles EXCEPT ![tidx + 1].counted = ~TextPropsThrow(data.typography[tidx + 1])]
  /\ tidx' = tidx + 1
  /\ ppc' = "textStyles"
  /\ UNCHANGED <<inbox, imports, posted, closedBy, mode, data, fonts, pages, stats, cidx, paintStyles, colorCount, attempts>>
  /\ UNCHANGED <<cvars, dvars, hvars, fvars, nvars>>

\* createTextStyles: return count; stats.textStyles = ...
TextStylesReturn ==
  /\ ppc = "textStyles" /\ tidx = Len(data.typography)
  /\ stats' = [stats EXCEPT !.textStyles = textCount]
  /\ ppc' = IF mode = "plugin" THEN "typographyPage" ELSE "called"
  /\ UNCHANGED <<inbox, imports, posted, closedBy, mode, data, fonts, pages, cidx, paintStyles, colorCount, tidx, textStyles, textCount, attempts>>
  /\ UNCHANGED <<cvars, dvars, hvars, fvars, nvars>>

\* await createTypographyDocumentationPage(typography, metadata); stats.pages++
TypographyPage ==
  /\ ppc = "typographyPage"
  /\ pages' = Append(pages, "Typography")
  /\ stats' = IF TypographyPageThrows(data, fonts) THEN stats ELSE CountPage(stats)
  /\ ppc' = IF TypographyPageThrows(data, fonts) THEN "threw" ELSE "logo"
  /\ UNCHANGED <<inbox, imports, posted, closedBy, mode, data, fonts, cidx, paintStyles, colorCount, tidx, textStyles, textCount, attempts>>
  /\ UNCHANGED <<cvars, dvars, hvars, fvars, nvars>>

\* else: await createPlaceholderPage('Typography', ...); stats.pages++
TypographyPlaceholder ==
  /\ ppc = "typography" /\ Len(data.typography) = 0
  /\ pages' = Append(pages, "Typography")
  /\ stats' = IF PlaceholderThrows(fonts) THEN stats ELSE CountPage(stats)
  /\ ppc' = IF PlaceholderThrows(fonts) THEN "threw" ELSE "logo"
  /\ UNCHANGED <<inbox, imports, posted, closedBy, mode, data, fonts, cidx, paintStyles, colorCount, tidx, textStyles, textCount, attempts>>
  /\ UNCHANGED <<cvars, dvars, hvars, fvars, nvars>>

\* the Logo page: createLogoDocumentationPage when there is a logo url or a
\* favicon, else createPlaceholderPage('Logo', ...); stats.pages++
LogoPage ==
  /\ ppc = "logo"
  /\ pages' = Append(pages, "Logo")
  /\ IF HasLogoSection(data)
     THEN /\ stats' = IF LogoPageThrows(data, fonts) THEN stats ELSE CountPage([stats EXCEPT !.logoImages = ImagesCreated(data)])
          /\ ppc' = IF LogoPageThrows(data, fonts) THEN "threw" ELSE "icons"
     ELSE /\ stats' = IF PlaceholderThrows(fonts) THEN stats ELSE CountPage(stats)
          /\ ppc' = IF PlaceholderThrows(fonts) THEN "threw" ELSE "icons"
  /\ UNCHANGED <<inbox, imports, posted, closedBy, mode, data, fonts, cidx, paintStyles, colorCount, tidx, textStyles, textCount, attempts>>
  /\ UNCHANGED <<cvars, dvars, hvars, fvars, nvars>>

\* await createPlaceholderPage('Icons', ...); stats.pages++
IconsPage ==
  /\ ppc = "icons"
  /\ pages' = Append(pages, "Icons")
  /\ stats' = IF PlaceholderThrows(fonts) THEN stats ELSE CountPage(stats)
  /\ ppc' = IF PlaceholderThrows(fonts) THEN "threw" ELSE "components"
  /\ UNCHANGED <<inbox, imports, posted, closedBy, mode, data, fonts, cidx, paintStyles, colorCount, tidx, textStyles, textCount, attempts>>
  /\ UNCHANGED <<cvars, dvars, hvars, fvars, nvars>>

\* await createPlaceholderPage('Components', ...); stats.pages++; the focus
\* on the Colors page, figma.notify, return stats
ComponentsPage ==
  /\ ppc = "components"
  /\ pages' = Append(pages, "Components")
  /\ stats' = IF PlaceholderThrows(fonts) THEN stats ELSE CountPage(stats)
  /\ ppc' = IF PlaceholderThrows(fonts) THEN "threw" ELSE "returned"
  /\ UNCHANGED <<inbox, imports, posted, closedBy, mode, data, fonts, cidx, paintStyles, colorCount, tidx, textStyles, textCount, attempts>>
  /\ UNCHANGED <<cvars, dvars, hvars, fvars, nvars>>

\* figma.ui.onmessage: importDesignSystem has returned stats
ImportComplete ==
  /\ ppc = "returned"
  /\ posted' = PostComplete(posted, stats)
  /\ ppc' = "idle"
  /\ UNCHANGED <<inbox, imports, closedBy, mode, data, fonts, pages, stats, cidx, paintStyles, colorCount, tidx, textStyles, textCount, attempts>>
  /\ UNCHANGED <<cvars, dvars, hvars, fvars, nvars>>

\* figma.ui.onmessage: catch (err)
ImportError ==
  /\ ppc = "threw"
  /\ posted' = PostError(posted, "err.message")
  /\ ppc' = "idle"
  /\ UNCHANGED <<inbox, imports, closedBy, mode, data, fonts, pages, stats, cidx, paintStyles, colorCount, tidx, textStyles, textCount, attempts>>
  /\ UNCHANGED <<cvars, dvars, hvars, fvars, nvars>>

StylesNext == ColorStyleStep \/ ColorStylesReturn \/ TextStyleCreate \/ TryFont \/ TextStyleProperties \/ TextStylesReturn
SpecStyles == StylesInit /\ [][StylesNext]_vars

PluginNext ==
  \/ OnMessage \/ ImportStart \/ ColorStylesBegin \/ ColorStyleStep \/ ColorStylesReturn \/ ColorPage \/ ColorPlaceholder
  \/ TextStylesBegin \/ TextStyleCreate \/ TryFont \/ TextStyleProperties \/ TextStylesReturn \/ TypographyPage \/ TypographyPlaceholder
  \/ LogoPage \/ IconsPage \/ ComponentsPage \/ ImportComplete \/ ImportError
SpecPlugin == PluginInit /\ [][PluginNext]_vars

\* --------------------------------- rgbToLch and rgbToOklch of a grey
\* '#' and the same byte three times, for every level of grey
GreyHex(n) == <<"#">> \o PadStart2(NatToHex(n)) \o PadStart2(NatToHex(n)) \o PadStart2(NatToHex(n))
GreyInputs == {GreyHex(n) : n \in 0..MaxChannel}
GreyInit ==
  /\ raw \in GreyInputs
  /\ out = Pending /\ out2 = Pending /\ norm = Pending /\ key = <<>> /\ cpc = "idle"
  /\ colors = NoColors /\ allColors = <<>> /\ colorMap = <<>> /\ uniqueColors = <<>> /\ idx = 0 /\ pc = "idle"
  /\ HistoryIdle /\ FigmaIdle /\ PluginIdle
  /\ rgbIn = <<0, 0, 0>> /\ lchOut = Pending /\ oklchOut = Pending /\ npc = "start"

\* r, g, b of convertColor, from hexToRgb
ParseChannels ==
  /\ npc = "start" /\ ParseColor(raw) # Null
  /\ rgbIn' = <<ParseColor(raw).r.v, ParseColor(raw).g.v, ParseColor(raw).b.v>>
  /\ npc' = "parsed"
  /\ UNCHANGED <<lchOut, oklchOut>>
  /\ UNCHANGED <<cvars, dvars, hvars, fvars, pvars>>

\* const lchValues = rgbToLch(r, g, b)
ToLch ==
  /\ npc = "parsed"
  /\ lchOut' = rgbToLch(rgbIn[1], rgbIn[2], rgbIn[3])
  /\ npc' = "lch"
  /\ UNCHANGED <<rgbIn, oklchOut>>
  /\ UNCHANGED <<cvars, dvars, hvars, fvars, pvars>>

\* const oklchValues = rgbToOklch(r, g, b)
ToOklch ==
  /\ npc = "lch"
  /\ oklchOut' = rgbToOklch(rgbIn[1], rgbIn[2], rgbIn[3])
  /\ npc' = "done"
  /\ UNCHANGED <<rgbIn, lchOut>>
  /\ UNCHANGED <<cvars, dvars, hvars, fvars, pvars>>

GreyNext == ParseChannels \/ ToLch \/ ToOklch

SpecGrey == GreyInit /\ [][GreyNext]_vars

\* --------------------------------------------------- the documented grammar
\* '#' followed by n hexadecimal digits
IsHexN(s, n) == Len(s) = n + 1 /\ s[1] = "#" /\ \A i \in 2..Len(s) : IsHexDigit(s[i])
IsHexColor(s) == IsHexN(s, 3) \/ IsHexN(s, 6) \/ IsHexN(s, 8)
\* the whole string is rgb(r,g,b) or rgba(r,g,b,a) with integer channels
IsRgbFunction(s) == MatchRgbaAt(s, 1).matched /\ MatchRgbaAt(s, 1).last = Len(s)
CountChar(s, c) == Cardinality({i \in 1..Len(s) : s[i] = c})
IdentityRecord(s) == [hex |-> s, rgb |-> s, lch |-> s, oklch |-> s, hasAlpha |-> FALSE]

\* C5: a raw string convertColor cannot parse resolves, through
\* normalizeColorFormat, to the identity record {hex: raw, rgb: raw, lch: raw,
\* oklch: raw, hasAlpha: false}; resolving a string and taking its key for
\* the consolidation never raises, and the key of an unparseable string is
\* the string in lower case.
C5_IdentityFallback ==
  /\ cpc # "raised"
  /\ (cpc \in {"normalized", "keyed"} /\ convertColor(raw) = Null) => norm = IdentityRecord(raw)
  /\ (cpc \in {"normalized", "keyed"} /\ convertColor(raw) # Null) => norm = convertColor(raw)
  /\ (cpc = "keyed" /\ convertColor(raw) = Null) => key = ToLowerCase(raw)
C5_Witness == cpc = "keyed" /\ raw = Str_hsl /\ norm = IdentityRecord(Str_hsl) /\ key = Str_hsl

\* C6 (as claimed): convertColor returns null for every string that is
\* neither '#' + 3, 6 or 8 hex digits nor rgb(r,g,b) / rgba(r,g,b,a).
C6_OnlyGrammarParses == (cpc = "converted" /\ ~IsHexColor(raw) /\ ~IsRgbFunction(raw)) => out = Null

\* C7 (as claimed): when convertColor(raw) is a record, convertColor of its
\* hex is a record with the same hex.
C7_Idempotent ==
  /\ (cpc = "converted" /\ out # Null) => convertColor(out.hex) # Null
  /\ cpc = "reconverted" => (out2 # Null /\ out2.hex = out.hex)

\* C8 (as claimed): the hex of every record convertColor returns is '#' and
\* exactly six lowercase hexadecimal digits, and it does not depend on the
\* alpha: an 8-character body gives the hex of its first six characters.
C8_HexSixLowercase ==
  (cpc = "converted" /\ out # Null) =>
     /\ Len(out.hex) = 7 /\ out.hex[1] = "#"
     /\ \A i \in 2..Len(out.hex) : out.hex[i] \in Range(LowerHex)
     /\ (Len(raw) = 9 /\ raw[1] = "#") => out.hex = convertColor(SubSeq(raw, 1, 7)).hex

\* C9: for every valid 6-digit hex string h, in any letter case,
\* convertColor(h).hex is h in lower case.
C9_Hex6RoundTrip == (cpc = "converted" /\ IsHexN(raw, 6)) => (out # Null /\ out.hex = ToLowerCase(raw))
C9_Witness == cpc = "converted" /\ raw = <<"#", "0", "c", "F", "F", "c", "0">> /\ out.hex = <<"#", "0", "c", "f", "f", "c", "0">>

\* the alpha text t is the fourth component of the rgb()/rgba() string s
HasAlphaText(s, t) == IsRgbFunction(s) /\ CountChar(s, ",") = 3 /\ (EndsWith(s, <<",">> \o t \o <<")">>) \/ EndsWith(s, <<",", " ">> \o t \o <<")">>))

\* C10: hasAlpha is true exactly when the parsed colour has an alpha and it
\* is below 1: an rgb()/rgba() string with three components, a 3- or 6-digit
\* hex, an alpha of 1 (or more, or not a number) and an 8-digit hex ending in
\* ff give false; an alpha text below 1 and any other last byte give true;
\* when true the rgb string is the rgba form ending in the alpha, and
\* rgba(255,0,0,0.5) ends in ', 0.5)'.
C10_HasAlpha ==
  (cpc = "converted" /\ out # Null) =>
     /\ out.hasAlpha = (ParseColor(raw).a.def /\ LessThanOne(ParseColor(raw).a))
     /\ \A i \in DOMAIN AlphaTexts : HasAlphaText(raw, AlphaTexts[i].text) => out.hasAlpha = AlphaTexts[i].below1
     /\ (IsRgbFunction(raw) /\ CountChar(raw, ",") = 2) => ~out.hasAlpha
     /\ (IsHexN(raw, 3) \/ IsHexN(raw, 6)) => ~out.hasAlpha
     /\ IsHexN(raw, 8) => (out.hasAlpha <=> ToLowerCase(SubSeq(raw, 8, 9)) # <<"f", "f">>)
     /\ out.hasAlpha => (StartsWith(out.rgb, Str_rgba) /\ Contains(out.lch, <<" ", "/", " ">>) /\ Contains(out.oklch, <<" ", "/", " ">>))
     /\ raw = Str_rgba_half => (out.hasAlpha /\ EndsWith(out.rgb, <<",", " ", "0", ".", "5", ")">>))
C10_Witness == cpc = "converted" /\ raw = Str_rgba_half /\ out.hasAlpha /\ out.rgb = Str_rgba \o <<"2", "5", "5", ",", " ", "0", ",", " ", "0", ",", " ", "0", ".", "5", ")">>

\* the input supplies an alpha: the fourth component of the rgb()/rgba() text
\* that is read, or, for a '#' string, the last two of eight characters
SuppliesAlpha(s) == IF MatchRgba(s).matched THEN MatchRgba(s).has4 ELSE (Len(s) = 9 /\ s[1] = "#")
\* 'rgb(r, g, b)' and 'rgba(r, g, b, a)' with a the text of the alpha
RgbText(r, g, b) == Str_rgb \o NumToString(r) \o <<",", " ">> \o NumToString(g) \o <<",", " ">> \o NumToString(b) \o <<")">>
RgbaText(r, g, b, a) == Str_rgba \o NumToString(r) \o <<",", " ">> \o NumToString(g) \o <<",", " ">> \o NumToString(b) \o <<",", " ">> \o a \o <<")">>

\* C11: the rgb field of a record is 'rgba(r, g, b, a)' exactly when the
\* input supplies an alpha (a fourth component, or the last byte of an
\* 8-digit hex, which is divided by 255) and 'rgb(r, g, b)' otherwise; an
\* alpha of 0, as in rgba(0,0,0,0) or '#FF000000', counts as supplied.
C11_RgbForm ==
  (cpc = "converted" /\ out # Null) =>
     /\ StartsWith(out.rgb, Str_rgba) <=> SuppliesAlpha(raw)
     /\ ~SuppliesAlpha(raw) => out.rgb = RgbText(ParseColor(raw).r, ParseColor(raw).g, ParseColor(raw).b)
     /\ (IsRgbFunction(raw) /\ CountChar(raw, ",") = 3) => StartsWith(out.rgb, Str_rgba)
     /\ (IsRgbFunction(raw) /\ CountChar(raw, ",") = 2) => StartsWith(out.rgb, Str_rgb)
     /\ (IsHexN(raw, 3) \/ IsHexN(raw, 6)) => StartsWith(out.rgb, Str_rgb)
     /\ IsHexN(raw, 8) =>
          out.rgb = RgbaText(Num(HexValue(SubSeq(raw, 2, 3))), Num(HexValue(SubSeq(raw, 4, 5))), Num(HexValue(SubSeq(raw, 6, 7))),
                             AlphaToString(Ratio(HexValue(SubSeq(raw, 8, 9)), 255)))
     /\ HasAlphaText(raw, <<"0">>) => EndsWith(out.rgb, <<",", " ", "0", ")">>)
C11_Witness ==
  /\ cpc = "converted" /\ raw = Str_rgba \o <<"0", ",", "0", ",", "0", ",", "0", ")">>
  /\ out.rgb = Str_rgba \o <<"0", ",", " ", "0", ",", " ", "0", ",", " ", "0", ")">>

\* C12: a 3-digit hex '#xyz' is read with each digit duplicated, r = 0xxx,
\* g = 0xyy, b = 0xzz (17 times the digit), and its hex is '#xxyyzz' in lower
\* case; '#abc' gives r = 170, g = 187, b = 204 and '#aabbcc'.
C12_Hex3Expansion ==
  (cpc = "converted" /\ IsHexN(raw, 3)) =>
     /\ out # Null
     /\ ParseColor(raw).r = Num(17 * HexDigitVal(raw[2]))
     /\ ParseColor(raw).g = Num(17 * HexDigitVal(raw[3]))
     /\ ParseColor(raw).b = Num(17 * HexDigitVal(raw[4]))
     /\ out.hex = ToLowerCase(<<"#", raw[2], raw[2], raw[3], raw[3], raw[4], raw[4]>>)
     /\ out.rgb = RgbText(Num(17 * HexDigitVal(raw[2])), Num(17 * HexDigitVal(raw[3])), Num(17 * HexDigitVal(raw[4])))
     /\ raw = <<"#", "a", "b", "c">> => ParseColor(raw) = [r |-> Num(170), g |-> Num(187), b |-> Num(204), a |-> Undefined]
C12_Witness ==
  /\ cpc = "converted" /\ raw = <<"#", "a", "b", "c">>
  /\ out.hex = <<"#", "a", "a", "b", "b", "c", "c">> /\ out.rgb = Str_rgb \o <<"1", "7", "0", ",", " ", "1", "8", "7", ",", " ", "2", "0", "4", ")">>

\* --------------------------------------------- what displayColors collects
\* the entries of the three sources that give an observation, in the order
\* of the source
SemanticSources == SelectSeq(colors.semantic, SemanticKept)
VariableSources == SelectSeq(Take(colors.cssVariables, cssVarLimit), VariableKept)
PaletteSources == Take(SelectSeq(colors.palette, PaletteKept), paletteLimit)
\* the raw colour of a custom property, and the lch / oklch it carries
VariableRaw(e) == IF e.varData.t = "string" THEN e.varData.s ELSE e.varData.value.s
VariablePre(e, f) == IF e.varData.t = "object" THEN (IF f = "lch" THEN e.varData.lch ELSE e.varData.oklch) ELSE UndefinedV
Carries(pre) == pre.t = "string" /\ pre.s # <<>>
\* the observations are all collected
Collected == pc \in {"dedup", "done"}
\* the observation of the i-th kept custom property / palette colour
VariableObsAt(i) == allColors[Len(SemanticSources) + i]
PaletteObsAt(i) == allColors[Len(SemanticSources) + Len(VariableSources) + i]

\* C13: an observation that carries a precomputed lch (oklch) gets that
\* value as the lch (oklch) of its record, in place of the one computed from
\* its raw colour; a field without a precomputed value gets the computed one;
\* hex, rgb and hasAlpha always come from the raw colour.
C13_PrecomputedWins ==
  Collected =>
     /\ Len(allColors) = Len(SemanticSources) + Len(VariableSources) + Len(PaletteSources)
     /\ \A i \in 1..Len(SemanticSources) :
          /\ allColors[i].lch = normalizeColorFormat(SemanticSources[i].color.s).lch
          /\ allColors[i].oklch = normalizeColorFormat(SemanticSources[i].color.s).oklch
     /\ \A i \in 1..Len(VariableSources) :
          /\ VariableObsAt(i).lch = (IF Carries(VariablePre(VariableSources[i], "lch")) THEN VariablePre(VariableSources[i], "lch").s
                                     ELSE normalizeColorFormat(VariableRaw(VariableSources[i])).lch)
          /\ VariableObsAt(i).oklch = (IF Carries(VariablePre(VariableSources[i], "oklch")) THEN VariablePre(VariableSources[i], "oklch").s
                                       ELSE normalizeColorFormat(VariableRaw(VariableSources[i])).oklch)
          /\ VariableObsAt(i).hex = normalizeColorFormat(VariableRaw(VariableSources[i])).hex
          /\ VariableObsAt(i).rgb = normalizeColorFormat(VariableRaw(VariableSources[i])).rgb
          /\ VariableObsAt(i).hasAlpha = normalizeColorFormat(VariableRaw(VariableSources[i])).hasAlpha
     /\ \A i \in 1..Len(PaletteSources) :
          /\ PaletteObsAt(i).lch = (IF Carries(PaletteSources[i].lch) THEN PaletteSources[i].lch.s ELSE normalizeColorFormat(PaletteSources[i].color.s).lch)
          /\ PaletteObsAt(i).oklch = (IF Carries(PaletteSources[i].oklch) THEN PaletteSources[i].oklch.s ELSE normalizeColorFormat(PaletteSources[i].color.s).oklch)
          /\ PaletteObsAt(i).hex = normalizeColorFormat(PaletteSources[i].color.s).hex
          /\ PaletteObsAt(i).rgb = normalizeColorFormat(PaletteSources[i].color.s).rgb
\* a custom property {value, lch} without oklch, then a palette colour with
\* both, then one with neither
C13_Witness ==
  /\ pc = "dedup" /\ Len(allColors) = 3
  /\ colors.cssVariables = <<[name |-> Str_Primary, varData |-> ObjV(StrV(Str_HSL), StrV(Str_preLch), UndefinedV)]>>
  /\ allColors[1].lch = Str_preLch /\ allColors[1].oklch = Str_HSL
  /\ allColors[2].type = "palette" /\ allColors[2].lch = Str_preLch /\ allColors[2].oklch = Str_preOklch /\ allColors[2].hex = <<"#", "f", "f", "0", "0", "0", "0">>
  /\ allColors[3].type = "palette" /\ allColors[3].hex = <<"#", "f", "f", "0", "0", "0", "0">> /\ allColors[3].lch = convertColor(Str_F00).lch /\ allColors[3].lch # Str_preLch

\* rank of a source: semantic roles, then custom properties, then the palette
TypeRank(t) == IF t = "semantic" THEN 1 ELSE IF t = "variable" THEN 2 ELSE 3
ObsOfType(t) == {i \in 1..Len(allColors) : allColors[i].type = t}
SmallerOf(a, b) == IF a < b THEN a ELSE b
\* the palette colours of confidence high or medium, in palette order
HighOrMedium == SelectSeq(colors.palette, PaletteKept)

\* C14: in the sequence displayColors hands to the consolidation every
\* semantic observation precedes every custom-property observation, which
\* precedes every palette observation; the custom-property observations are
\* at most 15 and all come from the first 15 custom properties; the palette
\* observations are the first 20 (or all, when fewer) of the palette colours
\* of confidence high or medium, in order; none has confidence low.
C14_SourceOrder ==
  Collected =>
     /\ \A i, j \in 1..Len(allColors) : i < j => TypeRank(allColors[i].type) <= TypeRank(allColors[j].type)
     /\ Cardinality(ObsOfType("semantic")) = Len(SelectSeq(colors.semantic, SemanticKept))
     /\ Cardinality(ObsOfType("variable")) <= 15
     /\ \A i \in ObsOfType("variable") : \E k \in 1..SmallerOf(15, Len(colors.cssVariables)) : colors.cssVariables[k].name = allColors[i].label
     /\ \A i, j \in ObsOfType("variable") : i # j => allColors[i].label # allColors[j].label
     /\ Cardinality(ObsOfType("palette")) = SmallerOf(20, Len(HighOrMedium))
     /\ \A k \in 1..Cardinality(ObsOfType("palette")) :
          LET o == allColors[Len(allColors) - Cardinality(ObsOfType("palette")) + k]
          IN o.type = "palette" /\ o.hex = normalizeColorFormat(HighOrMedium[k].color.s).hex /\ o.confidence = HighOrMedium[k].confidence
     /\ \A i \in ObsOfType("palette") : allColors[i].confidence # "low"
C14_Witness ==
  /\ pc = "dedup" /\ idx = 0
  /\ Len(colors.semantic) = 1 /\ Len(colors.cssVariables) = 17 /\ Len(colors.palette) = 24 /\ Len(HighOrMedium) = 22
  /\ \E i \in 1..20 : colors.palette[i].confidence = "low"
  /\ Cardinality(ObsOfType("semantic")) = 1 /\ Cardinality(ObsOfType("variable")) = 15 /\ Cardinality(ObsOfType("palette")) = 20

\* what one call of displayColors returns when nothing came before it: the
\* fold of its observations into an empty map
RECURSIVE FoldAll(_, _)
FoldAll(map, q) == IF q = <<>> THEN map ELSE FoldAll(DedupOne(map, Head(q)), Tail(q))
ObservationsOf(c) == SemanticPushed(c.semantic) \o VariablesPushed(c.cssVariables) \o PalettePushed(c.palette)
MapValues(map) == [i \in 1..Len(map) |-> map[i].value]
FreshResult(c) == MapValues(FoldAll(<<>>, ObservationsOf(c)))

\* C15: nothing is kept from one call to the next: a call returns what an
\* earlier call on the same extraction returned, and what a first call on it
\* returns, whatever extractions were converted and consolidated in between.
C15_Stateless ==
  pc = "done" =>
     /\ \A i \in 1..Len(history) : history[i].input = colors => history[i].output = uniqueColors
     /\ uniqueColors = FreshResult(colors)
     /\ \A i \in 1..Len(history) : history[i].output = FreshResult(history[i].input)
C15_Witness ==
  /\ pc = "done" /\ Len(history) = 2
  /\ history[1].input = colors /\ history[2].input # colors
  /\ history[1].output = uniqueColors /\ history[2].output # uniqueColors
  /\ Len(uniqueColors) = 1 /\ Len(allColors) = 2 /\ Len(history[2].output) = 2

\* ------------------------------------------------------- greys and black
\* 0.000001 and 0.00002
Millionth == Big2(100, 0)
TwoHundredThousandths == Big2(2000, 0)
Str_black == <<"#", "0", "0", "0", "0", "0", "0">>
Str_white == <<"#", "f", "f", "f", "f", "f", "f">>

\* C16 (as claimed): for every grey r = g = b in 0..255 the chroma of
\* rgbToLch and the chroma of rgbToOklch are both within 1e-6 of 0.
C16_GreyChroma ==
  /\ npc \in {"lch", "done"} => BigLeq(lchOut.c, Millionth)
  /\ npc = "done" => BigLeq(oklchOut.c, Millionth)

\* C16 (amended): for every grey r = g = b in 0..255 the chroma of
\* rgbToOklch is within 1e-6 of 0 and the chroma of rgbToLch is within 2e-5
\* of 0; both print as 0 after the rounding of formatLch and formatOklch.
C16_GreyChromaAmended ==
  /\ npc \in {"lch", "done"} => (BigLeq(lchOut.c, TwoHundredThousandths) /\ LchCText(lchOut) = <<"0">>)
  /\ npc = "done" => (BigLeq(oklchOut.c, Millionth) /\ OklchCText(oklchOut) = <<"0">>)
C16_Witness ==
  /\ npc = "done" /\ raw = Str_white /\ rgbIn = <<255, 255, 255>>
  /\ ~BigLeq(lchOut.c, Millionth) /\ BigLeq(lchOut.c, TwoHundredThousandths)
  /\ oklchOut.c # Zero /\ BigLeq(oklchOut.c, Millionth)

\* C17: for '#000000' the lightness that formatLch prints is 0 and so is
\* the one formatOklch prints, and both print a chroma of 0: black has L = 0
\* (and C = 0) through XYZ / Lab and through OKLab.
C17_BlackIsZero ==
  (npc = "done" /\ raw = Str_black) =>
     /\ rgbIn = <<0, 0, 0>>
     /\ LchLText(lchOut) = <<"0">> /\ LchCText(lchOut) = <<"0">>
     /\ OklchLText(oklchOut) = <<"0">> /\ OklchCText(oklchOut) = <<"0">>
     /\ lchOut.c = Zero /\ oklchOut.c = Zero /\ oklchOut.l.mag = Zero
     /\ BigLeq(lchOut.l.mag, <<1000>>)
C17_Witness ==
  /\ npc = "done" /\ raw = Str_black /\ lchOut # Pending /\ oklchOut # Pending
  /\ LchLText(lchOut) = <<"0">> /\ OklchLText(oklchOut) = <<"0">>

Str_Slash == <<" ", "/", " ">>
\* the text has an alpha part ' / ...)' at its end, and nowhere else
HasAlphaPart(t) == Contains(t, Str_Slash) /\ CountChar(t, "/") >= 1 /\ EndsWith(t, <<")">>)
NoAlphaPart(t) == CountChar(t, "/") = 0 /\ EndsWith(t, <<")">>)

\* C18: the lch and oklch strings end in ' / alpha)' exactly when the alpha
\* handed to formatLch and formatOklch is defined and below 1; without an
\* alpha, or with an alpha of 1 or more (or one that is no number), they
\* have no alpha part.
C18_AlphaSuffix ==
  (cpc = "converted" /\ out # Null) =>
     /\ HasAlphaPart(out.lch) <=> (ParseColor(raw).a.def /\ LessThanOne(ParseColor(raw).a))
     /\ HasAlphaPart(out.oklch) <=> HasAlphaPart(out.lch)
     /\ ~HasAlphaPart(out.lch) => (NoAlphaPart(out.lch) /\ NoAlphaPart(out.oklch))
     /\ HasAlphaPart(out.lch) =>
          /\ EndsWith(out.lch, Str_Slash \o AlphaToString(ParseColor(raw).a) \o <<")">>)
          /\ EndsWith(out.oklch, Str_Slash \o AlphaToString(ParseColor(raw).a) \o <<")">>)
     /\ \A i \in DOMAIN AlphaTexts : HasAlphaText(raw, AlphaTexts[i].text) => (HasAlphaPart(out.lch) <=> AlphaTexts[i].below1)
     /\ (IsRgbFunction(raw) /\ CountChar(raw, ",") = 2) => NoAlphaPart(out.lch)
     /\ (IsHexN(raw, 3) \/ IsHexN(raw, 6)) => NoAlphaPart(out.lch)
     /\ IsHexN(raw, 8) => (HasAlphaPart(out.lch) <=> ToLowerCase(SubSeq(raw, 8, 9)) # <<"f", "f">>)
     /\ StartsWith(out.lch, <<"l", "c", "h", "(">>) /\ StartsWith(out.oklch, <<"o", "k", "l", "c", "h", "(">>)
C18_Witness ==
  /\ cpc = "converted" /\ raw = Str_rgba_half
  /\ EndsWith(out.lch, <<" ", "/", " ", "0", ".", "5", ")">>) /\ EndsWith(out.oklch, <<" ", "/", " ", "0", ".", "5", ")">>)
  /\ convertColor(Str_rgba \o <<"2", "5", "5", ",", "0", ",", "0", ",", "1", ")">>).lch = convertColor(Str_rgb \o <<"2", "5", "5", ",", "0", ",", "0", ")">>).lch

\* C19: the data produced for the Figma plugin holds at most 20 colours, and
\* an import of it creates at most 20 colour styles, whatever the numbers of
\* palette colours and custom properties of the extraction.
C19_AtMostTwentyColors ==
  /\ fpc \in {"exported", "styles", "imported", "placeholder"} => Len(figmaColors) <= 20
  /\ Len(created) <= 20

\* C20: once the palette is exported, whenever a high or medium palette
\* colour is left out by the limit of 20, no exported palette colour has a
\* lower confidence than the one left out.
C20_HighestConfidenceExported ==
  fpc = "variables" =>
    \A k \in 21..Len(HighOrMedium) : \A i \in 1..Len(figmaColors) :
      confidenceOrder(figmaColors[i].confidence) >= confidenceOrder(HighOrMedium[k].confidence)

\* a custom property whose value can be processed: a string, or an object
\* with a string value
Processable(e) == e.varData.t = "string" \/ (e.varData.t = "object" /\ e.varData.value.t = "string")
ProcessableVars == SelectSeq(SubSeq(colors.cssVariables, 1, SmallerOf(15, Len(colors.cssVariables))), Processable)
KeysOf(q) == {ToLowerCase(q[i].hex) : i \in 1..Len(q)}

\* C24: a custom property whose value cannot be processed (null, or an
\* object without a string value) contributes no observation and stops
\* nothing: the observations are the semantic ones, then one per processable
\* custom property among the first 15, in order, then the palette ones, and
\* the call ends with every one of them consolidated.
C24_UnprocessableSkipped ==
  /\ Collected =>
       /\ Len(allColors) = Len(SemanticSources) + Len(ProcessableVars) + Len(PaletteSources)
       /\ \A i \in 1..Len(SemanticSources) : allColors[i].type = "semantic" /\ allColors[i].label = SemanticSources[i].role
       /\ \A i \in 1..Len(ProcessableVars) :
            /\ allColors[Len(SemanticSources) + i].type = "variable"
            /\ allColors[Len(SemanticSources) + i].label = ProcessableVars[i].name
            /\ allColors[Len(SemanticSources) + i].hex = normalizeColorFormat(VariableRaw(ProcessableVars[i])).hex
       /\ \A i \in 1..Len(PaletteSources) :
            /\ allColors[Len(SemanticSources) + Len(ProcessableVars) + i].type = "palette"
            /\ allColors[Len(SemanticSources) + Len(ProcessableVars) + i].hex = normalizeColorFormat(PaletteSources[i].color.s).hex
  /\ pc = "done" => KeysOf(uniqueColors) = KeysOf(allColors)
\* seventeen custom properties, of which the 3rd and 10th are null and the
\* 5th and 12th are objects without a value: eleven observations, and the
\* palette after them
C24_Witness ==
  /\ pc = "done" /\ Len(colors.cssVariables) = 17 /\ Len(colors.semantic) = 1 /\ Len(PaletteSources) = 20
  /\ colors.cssVariables[3].varData = NullV /\ colors.cssVariables[5].varData.t = "object" /\ colors.cssVariables[5].varData.value = UndefinedV
  /\ Cardinality(ObsOfType("variable")) = 11
  /\ allColors[4].label = IndexedName(4) /\ allColors[5].label = IndexedName(6)
  /\ allColors[13].type = "palette" /\ Len(uniqueColors) = 31

\* the colour text of a custom property in either shape: the bare string, or
\* the value of the object
ShapeText(e) ==
  IF e.value.t = "string" THEN e.value.s
  ELSE IF e.value.t = "object" /\ e.value.value.t = "string" THEN e.value.value.s
  ELSE <<>>

\* C25: transformToFigmaFormat does not raise on custom properties given as
\* bare strings or as objects {value, lch, oklch}, and on completion every
\* colour-related custom property whose colour text holds a 6-digit hex, in
\* either shape, has its hex among the exported colours.
C25_BothShapesExported ==
  /\ fpc # "threw"
  /\ fpc = "exported" =>
       \A i \in 1..Len(colors.cssVariables) :
         (ColorRelated(colors.cssVariables[i].name) /\ HexMatchIndex(ShapeText(colors.cssVariables[i])) # 0) =>
           \E k \in 1..Len(figmaColors) :
             /\ figmaColors[k].sources = <<colors.cssVariables[i].name>>
             /\ figmaColors[k].hex = SubSeq(ShapeText(colors.cssVariables[i]), HexMatchIndex(ShapeText(colors.cssVariables[i])), HexMatchIndex(ShapeText(colors.cssVariables[i])) + 6)

\* the first observation with the key k
FirstIndexOf(k) == CHOOSE j \in 1..Len(allColors) : KeyAt(j) = k /\ \A m \in 1..(j - 1) : KeyAt(m) # k
SameRecord(e, o) == e.hex = o.hex /\ e.rgb = o.rgb /\ e.lch = o.lch /\ e.oklch = o.oklch /\ e.hasAlpha = o.hasAlpha /\ e.type = o.type
\* the callback on the next observation finds its key in the map
Collides == pc = "dedup" /\ idx < Len(allColors) /\ idx' = idx + 1 /\ MapIndex(colorMap, KeyAt(idx + 1)) # 0

\* C26: every entry keeps the hex, rgb, lch, oklch, hasAlpha and type of the
\* first observation with its key, and a collision changes nothing but the
\* label and confidence of the one entry with that key: the map keeps its
\* length and keys, and every other entry is as before.
C26_CollisionFrame ==
  /\ [](Collected => \A i \in 1..Len(colorMap) : SameRecord(colorMap[i].value, allColors[FirstIndexOf(colorMap[i].key)]))
  /\ [][Collides =>
          /\ Len(colorMap') = Len(colorMap)
          /\ \A i \in 1..Len(colorMap) :
               /\ colorMap'[i].key = colorMap[i].key
               /\ SameRecord(colorMap'[i].value, colorMap[i].value)
               /\ i # MapIndex(colorMap, KeyAt(idx + 1)) => colorMap'[i] = colorMap[i]]_vars
\* '#F00' named Primary, then a palette colour rgba(255, 0, 0, 0.5) with
\* precomputed lch and oklch, then a third observation of another key: the
\* first entry keeps the computed strings of '#F00'
C26_Witness ==
  /\ pc = "done" /\ Len(allColors) = 3 /\ Len(uniqueColors) = 2
  /\ allColors[1].type = "semantic" /\ allColors[1].hex = allColors[2].hex
  /\ allColors[2].lch = Str_preLch /\ allColors[2].oklch = Str_preOklch /\ allColors[2].hasAlpha /\ allColors[2].rgb # allColors[1].rgb
  /\ uniqueColors[1].lch = convertColor(Str_F00).lch /\ uniqueColors[1].lch # Str_preLch /\ ~uniqueColors[1].hasAlpha
  /\ uniqueColors[1].rgb = allColors[1].rgb /\ uniqueColors[1].type = "semantic"

RawAt(i) ==
  IF i <= Len(SemanticSources) THEN SemanticSources[i].color.s
  ELSE IF i <= Len(SemanticSources) + Len(VariableSources) THEN VariableRaw(VariableSources[i - Len(SemanticSources)])
  ELSE PaletteSources[i - Len(SemanticSources) - Len(VariableSources)].color.s
\* both parse, to the same red, green and blue
SameChannels(a, b) ==
  /\ ParseColor(a) # Null /\ ParseColor(b) # Null
  /\ ParseColor(a).r = ParseColor(b).r /\ ParseColor(a).g = ParseColor(b).g /\ ParseColor(a).b = ParseColor(b).b
EntriesOfKey(k) == {e \in 1..Len(uniqueColors) : ToLowerCase(uniqueColors[e].hex) = k}

\* C28: two observations whose raw colours parse to the same red, green and
\* blue have the same key, whatever their alphas, and end in one entry,
\* which has the rgb, lch and oklch of the first observation with that key.
C28_AlphaIgnoredInKey ==
  /\ Collected => \A i, j \in 1..Len(allColors) : SameChannels(RawAt(i), RawAt(j)) => KeyAt(i) = KeyAt(j)
  /\ pc = "done" =>
       \A i, j \in 1..Len(allColors) :
         (i < j /\ SameChannels(RawAt(i), RawAt(j))) =>
           /\ Cardinality(EntriesOfKey(KeyAt(i))) = 1
           /\ \A e \in EntriesOfKey(KeyAt(i)) :
                /\ uniqueColors[e].rgb = allColors[FirstIndexOf(KeyAt(i))].rgb
                /\ uniqueColors[e].lch = allColors[FirstIndexOf(KeyAt(i))].lch
                /\ uniqueColors[e].oklch = allColors[FirstIndexOf(KeyAt(i))].oklch
\* the custom property rgba(255, 0, 0, 0.5) first, with its precomputed
\* oklch, then the palette colour '#F00': one entry, with the rgba text
C28_Witness ==
  /\ pc = "done" /\ Len(allColors) = 2 /\ Len(uniqueColors) = 1
  /\ RawAt(1) = Str_rgba_half_sp /\ RawAt(2) = Str_F00
  /\ allColors[1].type = "variable" /\ allColors[1].oklch = Str_preOklch /\ allColors[2].oklch = convertColor(Str_F00).oklch
  /\ uniqueColors[1].rgb = convertColor(Str_rgba_half_sp).rgb /\ uniqueColors[1].rgb # convertColor(Str_F00).rgb
  /\ uniqueColors[1].hasAlpha

\* the six fonts of the fallback, in their order
SixFonts(typo) ==
  <<[family |-> typo.fontFamily, style |-> typo.fontStyle], [family |-> typo.fontFamily, style |-> "Regular"],
    [family |-> "Inter", style |-> typo.fontStyle], [family |-> "Inter", style |-> "Regular"],
    [family |-> "Roboto", style |-> typo.fontStyle], [family |-> "Roboto", style |-> "Regular"]>>
NoneLoads(typo) == \A k \in 1..6 : SixFonts(typo)[k] \notin fonts
\* the entries createTextStyles is done with
TextEntryDone(i) == i <= tidx

\* C21: createTextStyles tries the fonts of an entry in the order (family,
\* style), (family, Regular), (Inter, style), (Inter, Regular), (Roboto,
\* style), (Roboto, Regular); every font tried before the last one tried
\* failed to load, the style has the first font that loaded, and an entry is
\* skipped, uncounted, exactly when none of the six loads.
C21_FontFallbackOrder ==
  (mode = "calls") =>
    \A i \in 1..Len(attempts) :
      /\ Len(attempts[i]) <= 6
      /\ \A k \in 1..Len(attempts[i]) : attempts[i][k] = SixFonts(data.typography[i])[k]
      /\ \A k \in 1..(Len(attempts[i]) - 1) : attempts[i][k] \notin fonts
      /\ textStyles[i].fontName # Null =>
           /\ Len(attempts[i]) > 0
           /\ textStyles[i].fontName = attempts[i][Len(attempts[i])]
           /\ textStyles[i].fontName \in fonts
      /\ TextEntryDone(i) =>
           /\ (textStyles[i].fontName = Null) <=> NoneLoads(data.typography[i])
           /\ textStyles[i].fontName = Null => (Len(attempts[i]) = 6 /\ ~textStyles[i].counted)
\* only Acme Regular loads: the Acme Bold entry gets it at the second try,
\* the Inter Bold entry is skipped after six
C21_Witness ==
  /\ mode = "calls" /\ ppc = "called" /\ Len(textStyles) = 2 /\ textCount = 1
  /\ textStyles[1].fontName = [family |-> "Acme", style |-> "Regular"] /\ Len(attempts[1]) = 2
  /\ textStyles[2].fontName = Null /\ Len(attempts[2]) = 6

\* C23: the number createColorStyles returns is the number of paint styles
\* the call added to the document, and the number createTextStyles returns
\* is the number of text styles the call added.
C23_CountIsStylesAdded ==
  /\ (mode = "calls" /\ ppc \in {"textStyles", "fonts", "properties", "called"}) => stats.colorStyles = Len(paintStyles)
  /\ (mode = "calls" /\ ppc = "called") => stats.textStyles = Len(textStyles)

\* the handler is fair: a step of it that can be taken is taken
SpecPluginFair == SpecPlugin /\ WF_vars(PluginNext)
\* the handling of an import message has not ended
Importing == ppc # "idle"
\* one step of the handler: what it posts and what it closes
AnswersAndCloses ==
  /\ ppc = "returned" => posted' = Append(posted, [type |-> "import-complete", stats |-> stats])
  /\ ppc = "threw" => (Len(posted') = Len(posted) + 1 /\ posted'[Len(posted')].type = "import-error" /\ posted'[Len(posted')].error = "err.message")
  /\ ppc \notin {"returned", "threw"} => posted' = posted
  /\ closedBy' # closedBy => (ppc = "idle" /\ inbox # <<>> /\ Head(inbox).type = "cancel")

====
